---- MODULE Spec2Model ----
(***************************************************************************)
(* Tambola test harness: the ticket generator (generateTambolaTicket /     *)
(* generateTicket), the claim validator (validateClaim) and the claim      *)
(* endpoint (POST /api/tambola/claim).                                     *)
(***************************************************************************)
EXTENDS Integers, Sequences, FiniteSets, TLC

(***************************************************************************)
(* Bounds of the model.                                                    *)
(***************************************************************************)
\* Math.random() returns one of the values k / RandLevels, k in 0..RandLevels-1.
RandLevels == 3
\* The random source is a tape of TapeLen values, read cyclically.
TapeLen == 5

(***************************************************************************)
(* Program constants.                                                      *)
(***************************************************************************)
NULL == 0
NumRows == 3
NumCols == 9
RowTarget == 5

Rows == 0 .. (NumRows - 1)
Cols == 0 .. (NumCols - 1)

\* ranges[col] of the source, 0-indexed there, 1-indexed here.
ranges ==
  << <<1, 9>>, <<10, 19>>, <<20, 29>>, <<30, 39>>, <<40, 49>>,
     <<50, 59>>, <<60, 69>>, <<70, 79>>, <<80, 90>> >>

RangeMin(c) == ranges[c + 1][1]
RangeMax(c) == ranges[c + 1][2]

VARIABLES
  rand,        \* the values Math.random() returns, as numerators over RandLevels
  pos,         \* number of values consumed so far, modulo TapeLen
  ticket,      \* ticket[row][col]: a number or NULL
  pc,          \* position in the generator
  col,         \* loop variable of the column loop
  row,         \* loop variable of the row loop
  i,           \* loop variable of the add / remove loop
  cols,        \* emptyCols (add branch) or filledCols (remove branch)
  count,       \* needed (add branch) or toRemove (remove branch)
  call,        \* validateClaim: the arguments of the call
  result,      \* validateClaim: the value returned, NoResult before the call
  response,    \* claim endpoint: the last response sent, NoResult before any
  accepted,    \* claim endpoint: the requests answered with success: true
  ticketData,  \* ticket component: NoTicket or [id, numbers, markedNumbers]
  claimState,  \* ticket component: claim key -> claimed
  isLoading,   \* ticket component: the loader is shown instead of the ticket
  timers,      \* ticket component: the setTimeout callbacks not yet run, in
               \* the order of their deadlines ("load" or a claim key)
  loadCount,   \* ticket component: number of loadTicket calls so far
  calledNumbers,  \* ticket component: the numbers of the "called numbers" demo
  mockCalledNumbers,     \* numbers route: tournament id -> list of numbers
  mockTournamentStatus,  \* numbers route: tournament id -> status
  numbersResponse,       \* numbers route: the last response, NoResult before
  mockTickets,           \* ticket route: ticket key -> ticket
  storeCalledNumbers,    \* ticket route: its own mockCalledNumbers map
  ticketResponse,        \* ticket route: the last response, NoResult before
  localStorage,          \* AuthStorage: the item stored under STORAGE_KEY
  now,                   \* Date.now(), in minutes
  loaded,                \* AuthStorage: what the last loadUsers returned
  playerSlots,           \* MultiPlayerAuth: the player slots, <<>> at first
  isInitializing,        \* MultiPlayerAuth: the slots are not set up yet
  handlers,              \* MultiPlayerAuth: the handlers waiting at an await
  authenticatedUsers,    \* useApiService: the users of the auth context
  apiCalls,              \* useApiService: the executeWithAuth calls in flight
  apiError,              \* useApiService: error, <<>> for null
  apiIsLoading,          \* useApiService: isLoading
  lastFinished           \* useApiService: how the last finished call went

genVars == <<rand, pos, ticket, pc, col, row, i, cols, count>>
claimVars == <<call, result, response, accepted>>
ticketVars ==
  <<ticketData, claimState, isLoading, timers, loadCount, calledNumbers>>
numbersVars == <<mockCalledNumbers, mockTournamentStatus, numbersResponse>>

\* The variables of the routes, the storage and the hooks that neither the
\* generator, the claim endpoint nor the ticket component touches.
storeVars == <<mockTickets, storeCalledNumbers, ticketResponse>>
authVars == <<localStorage, now, loaded>>
slotVars == <<playerSlots, isInitializing, handlers>>
apiVars ==
  <<authenticatedUsers, apiCalls, apiError, apiIsLoading, lastFinished>>
appVars == <<numbersVars, storeVars, authVars, slotVars, apiVars>>

\* What the numbers route leaves alone, and what the ticket route does.
outsideNumbers ==
  <<genVars, claimVars, ticketVars, storeVars, authVars, slotVars, apiVars>>
outsideStore ==
  <<genVars, claimVars, ticketVars, numbersVars, authVars, slotVars, apiVars>>
outsideAuth ==
  <<genVars, claimVars, ticketVars, numbersVars, storeVars, slotVars, apiVars>>
outsideSlots ==
  <<genVars, claimVars, ticketVars, numbersVars, storeVars, apiVars>>
outsideApi ==
  <<genVars, claimVars, ticketVars, numbersVars, storeVars, authVars,
    slotVars>>

vars == <<rand, pos, ticket, pc, col, row, i, cols, count,
          call, result, response, accepted,
          ticketData, claimState, isLoading, timers, loadCount, calledNumbers,
          appVars>>

(***************************************************************************)
(* The random source.                                                      *)
(***************************************************************************)
\* The k-th value (k = 0, 1, ...) that Math.random() returns from here on.
Draw(k) == rand[((pos + k) % TapeLen) + 1]

\* Math.floor(Math.random() * n) for the k-th value.
FloorRand(k, n) == (Draw(k) * n) \div RandLevels

\* Math.random() - 0.5 > 0 for the k-th value.
CmpPositive(k) == 2 * Draw(k) > RandLevels

(***************************************************************************)
(* Helpers on arrays.                                                      *)
(***************************************************************************)
\* Mutant of ArrayFrom: the range starts one too high.
ArrayFromOffByOne(min, max) == [k \in 1 .. (max - min + 1) |-> min + k]

\* Array.from({ length: max - min + 1 }, (_, i) => min + i)
ArrayFrom(min, max) == [k \in 1 .. (max - min + 1) |-> min + k - 1]

Swap(arr, a, b) == [arr EXCEPT ![a] = arr[b], ![b] = arr[a]]

\* for (let i = length - 1; i > 0; i--) { j = floor(random * (i + 1)); swap i, j }
\* idx is the source's i, k the index of the next random value.
RECURSIVE Shuffle(_, _, _)
Shuffle(arr, idx, k) ==
  IF idx > 0
  THEN LET j == FloorRand(k, idx + 1)
       IN  CHOOSE res \in {Shuffle(swapped, idx - 1, k + 1) :
                            swapped \in {Swap(arr, idx + 1, j + 1)}} : TRUE
  ELSE arr

\* [0, 1, 2].sort(() => Math.random() - 0.5): a comparison sort whose
\* comparator ignores its arguments.  The order is whatever the comparator's
\* random signs make of it; insertion sort reaches all six orders.  The result
\* is the order and the number of random values consumed, from value k on.
SortRows(k) ==
  LET a1 == IF CmpPositive(k) THEN <<1, 0>> ELSE <<0, 1>>
  IN  IF CmpPositive(k + 1)
      THEN IF CmpPositive(k + 2)
           THEN [order |-> <<2, a1[1], a1[2]>>, used |-> 3]
           ELSE [order |-> <<a1[1], 2, a1[2]>>, used |-> 3]
      ELSE [order |-> <<a1[1], a1[2], 2>>, used |-> 2]

\* ticket[row].filter(n => n !== null).length
NumbersInRow(t, r) == Cardinality({c \in Cols : t[r][c] # NULL})

RECURSIVE ColsWhere(_, _, _, _)
\* ticket[row].map((n, i) => cond ? i : -1).filter(i => i !== -1), ascending
ColsWhere(t, r, c, empty) ==
  IF c >= NumCols THEN <<>>
  ELSE IF (t[r][c] = NULL) = empty
       THEN <<c>> \o ColsWhere(t, r, c + 1, empty)
       ELSE ColsWhere(t, r, c + 1, empty)

\* ticket.flat()
Flat(t) == {t[r][c] : r \in Rows, c \in Cols}

RECURSIVE Filter(_, _)
\* arr.filter(num => !used.includes(num))
Filter(arr, used) ==
  IF arr = <<>> THEN <<>>
  ELSE IF Head(arr) \in used
       THEN Filter(Tail(arr), used)
       ELSE <<Head(arr)>> \o Filter(Tail(arr), used)

\* Mutant of Splice: the chosen column stays in filledCols.
SpliceKeeps(arr, index) == arr

\* filledCols.splice(index, 1): the array without the element at index (0-based)
Splice(arr, index) ==
  [k \in 1 .. (Len(arr) - 1) |-> IF k <= index THEN arr[k] ELSE arr[k + 1]]

(***************************************************************************)
(* generateTambolaTicket (subscribe route).  The ticket route's            *)
(* generateTambolaTicket and the ticket component's generateTicket are the *)
(* same statements in the same order.                                      *)
(***************************************************************************)
EmptyTicket == [r \in Rows |-> [c \in Cols |-> NULL]]

\* No call made, no response sent yet.
NoResult == [none |-> TRUE]

\* useState(null) of ticketData.
NoTicket == [none |-> TRUE]

\* The keys of ClaimState.
ClaimKeys ==
  {"fastFive", "firstRow", "secondRow", "thirdRow", "fullHouse",
   "secondFullHouse"}

\* The initial claimState, which resetTicket sets again: all six false.
NoClaims == [k \in ClaimKeys |-> FALSE]

\* The ticket component is not mounted.
NotMounted ==
  /\ ticketData = NoTicket
  /\ claimState = NoClaims
  /\ isLoading = FALSE
  /\ timers = <<>>
  /\ loadCount = 0
  /\ calledNumbers = <<>>

\* new Map(): no entry.
EmptyMap == [k \in {} |-> <<>>]

\* The numbers route has served no request.
NumbersIdle ==
  /\ mockCalledNumbers = EmptyMap
  /\ mockTournamentStatus = EmptyMap
  /\ numbersResponse = NoResult

\* The ticket route has served no request.
StoreIdle ==
  /\ mockTickets = EmptyMap
  /\ storeCalledNumbers = EmptyMap
  /\ ticketResponse = NoResult

\* localStorage.getItem(STORAGE_KEY) returns null.
NotStored == [stored |-> FALSE, users |-> <<>>]

\* Nothing was ever stored under STORAGE_KEY.
AuthIdle ==
  /\ localStorage = NotStored
  /\ now = 0
  /\ loaded = <<>>

\* MultiPlayerAuth is not mounted.
SlotsIdle ==
  /\ playerSlots = <<>>
  /\ isInitializing = TRUE
  /\ handlers = <<>>

\* No call of executeWithAuth was finished yet.
NoCall ==
  [kind |-> "none", attempts |-> 0, firstError |-> <<>>,
   refreshed |-> FALSE, failed |-> FALSE, message |-> <<>>]

\* useApiService is not in use.
ApiIdle ==
  /\ authenticatedUsers = <<>>
  /\ apiCalls = <<>>
  /\ apiError = <<>>
  /\ apiIsLoading = FALSE
  /\ lastFinished = NoCall

\* Nothing outside the generator, the claim endpoint and the ticket
\* component has run.
AppIdle == NumbersIdle /\ StoreIdle /\ AuthIdle /\ SlotsIdle /\ ApiIdle

\* The generator and the claim endpoint have not run and the ticket
\* component is not mounted.
CoreIdle ==
  /\ call = NoResult
  /\ result = NoResult
  /\ response = NoResult
  /\ accepted = <<>>
  /\ rand = <<>>
  /\ pos = 0
  /\ ticket = EmptyTicket
  /\ pc = "idle"
  /\ col = 0
  /\ row = 0
  /\ i = 0
  /\ cols = <<>>
  /\ count = 0
  /\ NotMounted

GenInit ==
  /\ rand \in [1 .. TapeLen -> 0 .. (RandLevels - 1)]
  /\ pos = 0
  /\ ticket = EmptyTicket
  /\ pc = "columns"
  /\ col = 0
  /\ row = 0
  /\ i = 0
  /\ cols = <<>>
  /\ count = 0
  /\ call = NoResult
  /\ result = NoResult
  /\ response = NoResult
  /\ accepted = <<>>
  /\ NotMounted
  /\ AppIdle

\* positions.forEach((row, index) => { if (index < availableNumbers.length)
\*   ticket[row][col] = availableNumbers[index] })
PlaceColumn(t, c, positions, availableNumbers) ==
  [r \in Rows |->
    [cc \in Cols |->
      IF cc = c /\ \E k \in 1 .. Len(positions) :
                     positions[k] = r /\ k <= Len(availableNumbers)
      THEN availableNumbers[CHOOSE k \in 1 .. Len(positions) : positions[k] = r]
      ELSE t[r][cc]]]

\* One iteration of the column loop.
FillColumn ==
  /\ pc = "columns"
  /\ col < NumCols
  /\ LET min == RangeMin(col)
         max == RangeMax(col)
         n == max - min + 1
         numbersToPlace == FloorRand(n - 1, 2) + 1
         sorted == SortRows(n)
         positions == SubSeq(sorted.order, 1, numbersToPlace)
     IN  /\ \E availableNumbers \in {Shuffle(ArrayFrom(min, max), n - 1, 0)} :
              ticket' = PlaceColumn(ticket, col, positions, availableNumbers)
         /\ pos' = (pos + n + sorted.used) % TapeLen
  /\ col' = col + 1
  /\ UNCHANGED <<rand, pc, row, i, cols, count>>
  /\ UNCHANGED claimVars
  /\ UNCHANGED ticketVars
  /\ UNCHANGED appVars

\* The column loop ends; the row loop starts.
ColumnsDone ==
  /\ pc = "columns"
  /\ col >= NumCols
  /\ pc' = "rows"
  /\ row' = 0
  /\ UNCHANGED <<rand, pos, ticket, col, i, cols, count>>
  /\ UNCHANGED claimVars
  /\ UNCHANGED ticketVars
  /\ UNCHANGED appVars

\* Head of one iteration of the row loop: count the row and pick the branch.
RowStart ==
  /\ pc = "rows"
  /\ row < NumRows
  /\ LET numbersInRow == NumbersInRow(ticket, row)
     IN  IF numbersInRow < RowTarget
         THEN /\ cols' = ColsWhere(ticket, row, 0, TRUE)
              /\ count' = RowTarget - numbersInRow
              /\ i' = 0
              /\ pc' = "add"
              /\ UNCHANGED row
         ELSE IF numbersInRow > RowTarget
         THEN /\ cols' = ColsWhere(ticket, row, 0, FALSE)
              /\ count' = numbersInRow - RowTarget
              /\ i' = 0
              /\ pc' = "remove"
              /\ UNCHANGED row
         ELSE /\ row' = row + 1
              /\ UNCHANGED <<pc, i, cols, count>>
  /\ UNCHANGED <<rand, pos, ticket, col>>
  /\ UNCHANGED claimVars
  /\ UNCHANGED ticketVars
  /\ UNCHANGED appVars

\* Mutant of AddCandidates: only the first two numbers of the column's range
\* are candidates.
AddCandidatesFirstTwo(t, c) ==
  Filter(ArrayFrom(RangeMin(c), RangeMin(c) + 1), Flat(t))

\* Mutant of AddCandidates: numbers already on the ticket are not filtered out.
AddCandidatesUnfiltered(t, c) == ArrayFrom(RangeMin(c), RangeMax(c))

\* The numbers the add step may put into column c: the column's range
\* without the numbers already on the ticket.
AddCandidates(t, c) == Filter(ArrayFrom(RangeMin(c), RangeMax(c)), Flat(t))

\* One iteration of the "add more numbers" loop.
AddStep ==
  /\ pc = "add"
  /\ i < count /\ i < Len(cols)
  /\ LET c == cols[i + 1]
         availableNumbers == AddCandidates(ticket, c)
     IN  IF Len(availableNumbers) > 0
         THEN /\ ticket' = [ticket EXCEPT ![row][c] =
                   availableNumbers[FloorRand(0, Len(availableNumbers)) + 1]]
              /\ pos' = (pos + 1) % TapeLen
         ELSE UNCHANGED <<ticket, pos>>
  /\ i' = i + 1
  /\ UNCHANGED <<rand, pc, col, row, cols, count>>
  /\ UNCHANGED claimVars
  /\ UNCHANGED ticketVars
  /\ UNCHANGED appVars

\* The add loop ends.
AddDone ==
  /\ pc = "add"
  /\ ~(i < count /\ i < Len(cols))
  /\ pc' = "rows"
  /\ row' = row + 1
  /\ UNCHANGED <<rand, pos, ticket, col, i, cols, count>>
  /\ UNCHANGED claimVars
  /\ UNCHANGED ticketVars
  /\ UNCHANGED appVars

\* Mutant of RemoveStep: picks among all columns and tries again when the
\* cell it picked is empty.
RemoveStepRetry ==
  /\ pc = "remove"
  /\ i < count
  /\ LET c == FloorRand(0, NumCols)
     IN  IF ticket[row][c] # NULL
         THEN /\ ticket' = [ticket EXCEPT ![row][c] = NULL]
              /\ i' = i + 1
         ELSE UNCHANGED <<ticket, i>>
  /\ pos' = (pos + 1) % TapeLen
  /\ UNCHANGED <<rand, pc, col, row, cols, count>>
  /\ UNCHANGED claimVars
  /\ UNCHANGED ticketVars
  /\ UNCHANGED appVars

\* One iteration of the "remove excess numbers" loop.
RemoveStep ==
  /\ pc = "remove"
  /\ i < count
  /\ LET randomIndex == FloorRand(0, Len(cols))
         c == cols[randomIndex + 1]
     IN  /\ cols' = Splice(cols, randomIndex)
         /\ ticket' = [ticket EXCEPT ![row][c] = NULL]
  /\ pos' = (pos + 1) % TapeLen
  /\ i' = i + 1
  /\ UNCHANGED <<rand, pc, col, row, count>>
  /\ UNCHANGED claimVars
  /\ UNCHANGED ticketVars
  /\ UNCHANGED appVars

\* The remove loop ends.
RemoveDone ==
  /\ pc = "remove"
  /\ ~(i < count)
  /\ pc' = "rows"
  /\ row' = row + 1
  /\ UNCHANGED <<rand, pos, ticket, col, i, cols, count>>
  /\ UNCHANGED claimVars
  /\ UNCHANGED ticketVars
  /\ UNCHANGED appVars

\* return ticket
Return ==
  /\ pc = "rows"
  /\ row >= NumRows
  /\ pc' = "done"
  /\ UNCHANGED <<rand, pos, ticket, col, row, i, cols, count>>
  /\ UNCHANGED claimVars
  /\ UNCHANGED ticketVars
  /\ UNCHANGED appVars

GenNext ==
  \/ FillColumn
  \/ ColumnsDone
  \/ RowStart
  \/ AddStep
  \/ AddDone
  \/ RemoveStep
  \/ RemoveDone
  \/ Return

SpecGen == GenInit /\ [][GenNext]_vars

FairSpecGen == SpecGen /\ WF_vars(GenNext)

(***************************************************************************)
(* validateClaim                                                           *)
(***************************************************************************)
\* Longest tail of extra numbers appended to the marked numbers of a call.
MaxExtra == 2

ClaimTypes ==
  {"fast-five", "first-row", "second-row", "third-row", "full-house",
   "second-full-house"}

\* A 3 x 9 grid from its rows written as tuples.
Grid(rows) == [r \in Rows |-> [c \in Cols |-> rows[r + 1][c + 1]]]

\* getMockTicket: the ticket every claim is validated against.
MockTicket ==
  Grid(<< <<5, NULL, 23, NULL, 45, NULL, 67, NULL, 89>>,
          <<NULL, 12, NULL, 34, NULL, 56, NULL, 78, NULL>>,
          <<8, NULL, 29, NULL, 41, NULL, 63, NULL, 85>> >>)

\* A second ticket, with five numbers in every row.
SampleTicket ==
  Grid(<< <<4, 10, NULL, 31, NULL, 52, NULL, 70, NULL>>,
          <<NULL, 15, 22, NULL, 47, NULL, 66, NULL, 88>>,
          <<7, NULL, 28, 39, NULL, 55, NULL, NULL, 81>> >>)

\* arr.includes(x)
Includes(arr, x) == \E k \in DOMAIN arr : arr[k] = x

RECURSIVE RowFrom(_, _, _)
\* ticketNumbers[r].filter(n => n !== null), from column c on
RowFrom(t, r, c) ==
  IF c >= NumCols THEN <<>>
  ELSE IF t[r][c] # NULL
       THEN <<t[r][c]>> \o RowFrom(t, r, c + 1)
       ELSE RowFrom(t, r, c + 1)

RowNumbers(t, r) == RowFrom(t, r, 0)

\* Mutant of FlatNumbers: the last row is left out.
FlatNumbersTwoRows(t) == RowNumbers(t, 0) \o RowNumbers(t, 1)

\* ticketNumbers.flat().filter(n => n !== null)
FlatNumbers(t) == RowNumbers(t, 0) \o RowNumbers(t, 1) \o RowNumbers(t, 2)

RECURSIVE Join(_, _)
\* arr.join(sep), as the sequence of its pieces
Join(arr, sep) ==
  IF arr = <<>> THEN <<>>
  ELSE IF Len(arr) = 1 THEN <<arr[1]>>
  ELSE <<arr[1], sep>> \o Join(Tail(arr), sep)

\* claimType.replace('-', ' '): only the first hyphen is replaced.
ReplaceFirstHyphen(claimType) ==
  CASE claimType = "fast-five" -> "fast five"
    [] claimType = "first-row" -> "first row"
    [] claimType = "second-row" -> "second row"
    [] claimType = "third-row" -> "third row"
    [] claimType = "full-house" -> "full house"
    [] claimType = "second-full-house" -> "second full-house"
    [] OTHER -> claimType

\* Mutant of InvalidNumbers: a marked number counts as invalid when it is
\* not in the first row of the ticket.
InvalidNumbersFirstRow(markedNumbers, ticketNumbers) ==
  SelectSeq(markedNumbers,
            LAMBDA num : ~Includes(RowNumbers(ticketNumbers, 0), num))

\* Mutant of InvalidNumbers: the off-ticket check is skipped.
InvalidNumbersNone(markedNumbers, ticketNumbers) == <<>>

\* markedNumbers.filter(num => !flatTicketNumbers.includes(num))
InvalidNumbers(markedNumbers, ticketNumbers) ==
  SelectSeq(markedNumbers,
            LAMBDA num : ~Includes(FlatNumbers(ticketNumbers), num))

\* Mutant of MissingNumbers: the last required number is not looked at.
MissingNumbersSkipLast(required, markedNumbers) ==
  SelectSeq(SubSeq(required, 1, Len(required) - 1),
            LAMBDA num : ~Includes(markedNumbers, num))

\* required.filter(num => !markedNumbers.includes(num)); required.every(...)
\* is true exactly when this is empty.
MissingNumbers(required, markedNumbers) ==
  SelectSeq(required, LAMBDA num : ~Includes(markedNumbers, num))

validateClaim(claimType, markedNumbers, ticketNumbers) ==
  LET flatTicketNumbers == FlatNumbers(ticketNumbers)
      invalidNumbers == InvalidNumbers(markedNumbers, ticketNumbers)
  IN  IF Len(invalidNumbers) > 0
      THEN [isValid |-> FALSE,
            message |-> <<"Invalid numbers marked: ">>
                          \o Join(invalidNumbers, ", ")]
      ELSE
        CASE claimType = "fast-five" ->
               IF Len(markedNumbers) < 5
               THEN [isValid |-> FALSE,
                     message |-> <<"Fast Five requires at least 5 marked numbers">>]
               ELSE [isValid |-> TRUE, message |-> <<"Valid Fast Five claim">>]
          [] claimType \in {"first-row", "second-row", "third-row"} ->
               LET rowIndex == IF claimType = "first-row" THEN 0
                               ELSE IF claimType = "second-row" THEN 1 ELSE 2
                   rowNumbers == RowNumbers(ticketNumbers, rowIndex)
                   missing == MissingNumbers(rowNumbers, markedNumbers)
               IN  IF missing # <<>>
                   THEN [isValid |-> FALSE,
                         message |-> <<ReplaceFirstHyphen(claimType),
                                       " is not complete. Missing numbers: ">>
                                       \o Join(missing, ", ")]
                   ELSE [isValid |-> TRUE,
                         message |-> <<"Valid ", ReplaceFirstHyphen(claimType),
                                       " claim">>]
          [] claimType \in {"full-house", "second-full-house"} ->
               LET missing == MissingNumbers(flatTicketNumbers, markedNumbers)
               IN  IF missing # <<>>
                   THEN [isValid |-> FALSE,
                         message |-> <<"Full House is not complete. Missing numbers: ">>
                                       \o Join(missing, ", ")]
                   ELSE [isValid |-> TRUE,
                         message |-> <<"Valid ", ReplaceFirstHyphen(claimType),
                                       " claim">>]
          [] OTHER ->
               [isValid |-> FALSE, message |-> <<"Invalid claim type">>]

(***************************************************************************)
(* Calls of validateClaim: the arguments are drawn from bounded sets.      *)
(***************************************************************************)
ClaimTickets == {MockTicket, SampleTicket}

\* Numbers a call may append to its marked numbers: the first number of the
\* ticket (a repeat when it is marked already) and two numbers on no ticket.
ExtraNumbers(t) == {FlatNumbers(t)[1], 1, 90}

RECURSIVE SeqsUpTo(_, _)
\* The sequences over S of length at most n.
SeqsUpTo(S, n) ==
  IF n = 0 THEN {<<>>}
  ELSE LET shorter == SeqsUpTo(S, n - 1)
       IN  shorter \cup {Append(q, x) : q \in shorter, x \in S}

\* The first k0, k1 and k2 numbers of rows 0, 1 and 2, then the extra tail.
Marked(t, k0, k1, k2, extra) ==
  SubSeq(RowNumbers(t, 0), 1, k0) \o SubSeq(RowNumbers(t, 1), 1, k1)
    \o SubSeq(RowNumbers(t, 2), 1, k2) \o extra

MarkedInputs(t) ==
  {Marked(t, k0, k1, k2, extra) :
     k0 \in 0 .. Len(RowNumbers(t, 0)),
     k1 \in 0 .. Len(RowNumbers(t, 1)),
     k2 \in 0 .. Len(RowNumbers(t, 2)),
     extra \in SeqsUpTo(ExtraNumbers(t), MaxExtra)}

ValidateInit ==
  /\ \E t \in ClaimTickets :
       call \in [claimType : ClaimTypes \cup {"bogus"},
                 markedNumbers : MarkedInputs(t),
                 ticketNumbers : {t}]
  /\ result = NoResult
  /\ response = NoResult
  /\ accepted = <<>>
  /\ rand = <<>>
  /\ pos = 0
  /\ ticket = EmptyTicket
  /\ pc = "idle"
  /\ col = 0
  /\ row = 0
  /\ i = 0
  /\ cols = <<>>
  /\ count = 0
  /\ NotMounted
  /\ AppIdle

\* The call of validateClaim.
Validate ==
  /\ call # NoResult
  /\ result = NoResult
  /\ result' = validateClaim(call.claimType, call.markedNumbers, call.ticketNumbers)
  /\ UNCHANGED <<call, response, accepted>>
  /\ UNCHANGED genVars
  /\ UNCHANGED ticketVars
  /\ UNCHANGED appVars

ValidateNext == Validate

SpecValidate == ValidateInit /\ [][ValidateNext]_vars

(***************************************************************************)
(* POST /api/tambola/claim                                                 *)
(***************************************************************************)
\* Requests answered with success: true before the model stops sending.
MaxAccepted == 2

\* getMockTicket(ticketId): the same grid for every ticket id.
getMockTicket(ticketId) == MockTicket

validClaimTypes ==
  {"fast-five", "first-row", "second-row", "third-row", "full-house",
   "second-full-house"}

\* Mutant of prizeAmounts: second-full-house pays what full-house pays.
prizeAmountsSameFullHouse(claimType) ==
  CASE claimType = "fast-five" -> 100
    [] claimType \in {"first-row", "second-row", "third-row"} -> 200
    [] claimType \in {"full-house", "second-full-house"} -> 1000

prizeAmounts(claimType) ==
  CASE claimType = "fast-five" -> 100
    [] claimType = "first-row" -> 200
    [] claimType = "second-row" -> 200
    [] claimType = "third-row" -> 200
    [] claimType = "full-house" -> 1000
    [] claimType = "second-full-house" -> 500

\* The request bodies the model sends.  "" is a missing field.
PostMarked ==
  {<<>>,
   RowNumbers(MockTicket, 0),
   FlatNumbers(MockTicket),
   FlatNumbers(MockTicket) \o <<90>>}

PostBodies ==
  [tournamentId : {"T1"},
   userId : {"u1"},
   ticketId : {"ticket-1", "ticket-2"},
   claimType : validClaimTypes \cup {"bogus", ""},
   markedNumbers : PostMarked,
   userToken : {"tok"}]

\* The response of POST to a request body.
PostResponse(body) ==
  IF \/ body.tournamentId = "" \/ body.userId = "" \/ body.ticketId = ""
     \/ body.claimType = "" \/ body.userToken = ""
  THEN [status |-> 400, success |-> FALSE,
        message |-> <<"Missing required fields">>]
  ELSE IF body.claimType \notin validClaimTypes
  THEN [status |-> 400, success |-> FALSE,
        message |-> <<"Invalid claim type">>]
  ELSE
    LET ticketNumbers == getMockTicket(body.ticketId)
        validation == validateClaim(body.claimType, body.markedNumbers,
                                    ticketNumbers)
    IN  IF ~validation.isValid
        THEN [status |-> 200, success |-> FALSE,
              message |-> validation.message, isValid |-> FALSE]
        ELSE [status |-> 200, success |-> TRUE,
              message |-> <<ReplaceFirstHyphen(body.claimType),
                            " claim accepted successfully!">>,
              claimId |-> <<"claim", body.tournamentId, body.userId,
                            body.claimType>>,
              isValid |-> TRUE,
              prize |-> [amount |-> prizeAmounts(body.claimType),
                         currency |-> "INR"]]

ClaimInit ==
  /\ call = NoResult
  /\ result = NoResult
  /\ response = NoResult
  /\ accepted = <<>>
  /\ rand = <<>>
  /\ pos = 0
  /\ ticket = EmptyTicket
  /\ pc = "idle"
  /\ col = 0
  /\ row = 0
  /\ i = 0
  /\ cols = <<>>
  /\ count = 0
  /\ NotMounted
  /\ AppIdle

\* One request to the endpoint, from the body to the response.  The handler
\* keeps no state between requests; accepted records the requests it answered
\* with success: true.
POST ==
  /\ Len(accepted) < MaxAccepted
  /\ \E body \in PostBodies :
       /\ response' = PostResponse(body)
       /\ accepted' = IF response'.success
                      THEN Append(accepted, [ticketId |-> body.ticketId,
                                             claimType |-> body.claimType,
                                             markedNumbers |-> body.markedNumbers])
                      ELSE accepted
  /\ UNCHANGED <<call, result>>
  /\ UNCHANGED genVars
  /\ UNCHANGED ticketVars
  /\ UNCHANGED appVars

ClaimNext == POST

SpecClaim == ClaimInit /\ [][ClaimNext]_vars

(***************************************************************************)
(* The TambolaTicket component.  A step is one event the browser runs to   *)
(* its end: the mount, a change of the tournamentId / user.id props, a     *)
(* click, or a setTimeout callback.                                        *)
(***************************************************************************)
\* Bounds: loadTicket calls in a run, and handleClaim calls waiting for
\* their delay at one time.
MaxLoads == 2
MaxPending == 2

\* Bound: numbers the called-numbers demo calls in a run.
MaxCalled == 2

\* The numbers the demo draws in the model: the first number of the first
\* ticket of the model, and one that is on neither ticket.
CallableNumbers == {4, 90}

\* A second ticket of the shape generateTicket returns.
SecondTicket ==
  Grid(<< <<2, NULL, 21, NULL, 40, 58, NULL, 73, NULL>>,
          <<NULL, 13, NULL, 35, 44, NULL, 61, NULL, 90>>,
          <<9, 18, 25, NULL, NULL, 50, NULL, 79, NULL>> >>)

\* What generateTicket returns in the model to the k-th loadTicket call that
\* reaches it: the two tickets in turn.
generateTicket(k) == IF k % 2 = 1 THEN SampleTicket ELSE SecondTicket

\* row.every(num => num === null || ticketData.markedNumbers.has(num))
checkRowComplete(td, rowIndex) ==
  /\ td # NoTicket
  /\ \A c \in Cols :
       td.numbers[rowIndex][c] = NULL
         \/ td.numbers[rowIndex][c] \in td.markedNumbers

\* ticketData.markedNumbers.size >= 5
checkFastFive(td) ==
  /\ td # NoTicket
  /\ Cardinality(td.markedNumbers) >= 5

\* allNumbers.every(num => ticketData.markedNumbers.has(num))
checkFullHouse(td) ==
  /\ td # NoTicket
  /\ LET allNumbers == FlatNumbers(td.numbers)
     IN  \A k \in 1 .. Len(allNumbers) : allNumbers[k] \in td.markedNumbers

\* The switch of handleClaim: the value of isValid for this claim type.
handleClaimIsValid(td, cs, claimType) ==
  CASE claimType = "fastFive" -> checkFastFive(td) /\ ~cs.fastFive
    [] claimType = "firstRow" -> checkRowComplete(td, 0) /\ ~cs.firstRow
    [] claimType = "secondRow" -> checkRowComplete(td, 1) /\ ~cs.secondRow
    [] claimType = "thirdRow" -> checkRowComplete(td, 2) /\ ~cs.thirdRow
    [] claimType = "fullHouse" -> checkFullHouse(td) /\ ~cs.fullHouse
    [] claimType = "secondFullHouse" ->
         checkFullHouse(td) /\ cs.fullHouse /\ ~cs.secondFullHouse
    [] OTHER -> FALSE

\* The ticket with its claim buttons is on screen: neither the loader
\* (isLoading) nor nothing (no ticketData) is rendered.
Rendered == ~isLoading /\ ticketData # NoTicket

\* The callbacks of timers that are handleClaim calls, and those that are
\* loadTicket calls.
PendingClaims(ts) == {k \in 1 .. Len(ts) : ts[k] # "load"}
PendingLoads(ts) == {k \in 1 .. Len(ts) : ts[k] = "load"}

\* The cells the user of the model clicks: the first unmarked number of the
\* ticket in reading order, and the last marked one.
Clickable(td) ==
  LET flat == FlatNumbers(td.numbers)
      unmarked == {k \in 1 .. Len(flat) : flat[k] \notin td.markedNumbers}
      marked == {k \in 1 .. Len(flat) : flat[k] \in td.markedNumbers}
  IN  {flat[k] : k \in {j \in unmarked : \A h \in unmarked : j <= h}}
        \cup {flat[k] : k \in {j \in marked : \A h \in marked : h <= j}}

\* The state after the mount: the initial useState values, and the effect
\* has called loadTicket, which set isLoading and waits for its 1000 ms.
TicketInit ==
  /\ ticketData = NoTicket
  /\ claimState = NoClaims
  /\ isLoading = TRUE
  /\ timers = <<"load">>
  /\ loadCount = 1
  /\ calledNumbers = <<>>
  /\ AppIdle
  /\ call = NoResult
  /\ result = NoResult
  /\ response = NoResult
  /\ accepted = <<>>
  /\ rand = <<>>
  /\ pos = 0
  /\ ticket = EmptyTicket
  /\ pc = "idle"
  /\ col = 0
  /\ row = 0
  /\ i = 0
  /\ cols = <<>>
  /\ count = 0

\* tournamentId or user.id changes: the effect runs loadTicket again, up to
\* its await.  In the model the props change only once the ticket of the
\* change before has loaded, so the 1000 ms of this call end after the 500 ms
\* of every handleClaim that is waiting, and no click comes before they end.
loadTicket ==
  /\ loadCount < MaxLoads
  /\ PendingLoads(timers) = {}
  /\ isLoading' = TRUE
  /\ timers' = Append(timers, "load")
  /\ loadCount' = loadCount + 1
  /\ UNCHANGED <<ticketData, claimState>>
  /\ UNCHANGED <<genVars, claimVars, calledNumbers>>
  /\ UNCHANGED appVars

\* loadTicket after its await: setTicketData(generateTicket()) and
\* setIsLoading(false).  The id stands for `ticket-${Date.now()}`: the number
\* of loadTicket calls that have come this far.
loadTicketResume ==
  /\ timers # <<>>
  /\ Head(timers) = "load"
  /\ LET k == loadCount - Cardinality(PendingLoads(timers)) + 1
     IN  ticketData' =
           [id |-> k, numbers |-> generateTicket(k), markedNumbers |-> {}]
  /\ isLoading' = FALSE
  /\ timers' = Tail(timers)
  /\ UNCHANGED <<claimState, loadCount>>
  /\ UNCHANGED <<genVars, claimVars, calledNumbers>>
  /\ UNCHANGED appVars

\* Mutant of toggleNumber: the new set starts empty, not as a copy of the
\* marked numbers.
toggleNumberForgets(number) ==
  /\ Rendered
  /\ ticketData' = [ticketData EXCEPT !.markedNumbers = {number}]
  /\ UNCHANGED <<claimState, isLoading, timers, loadCount>>
  /\ UNCHANGED <<genVars, claimVars, calledNumbers>>
  /\ UNCHANGED appVars

\* A click on a cell that holds a number.
toggleNumber(number) ==
  /\ Rendered
  /\ ticketData' =
       [ticketData EXCEPT !.markedNumbers =
          IF number \in @ THEN @ \ {number} ELSE @ \cup {number}]
  /\ UNCHANGED <<claimState, isLoading, timers, loadCount>>
  /\ UNCHANGED <<genVars, claimVars, calledNumbers>>
  /\ UNCHANGED appVars

\* handleClaim up to its await.  A valid claim sets a 500 ms timeout, whose
\* deadline is after those already set (no loadTicket is waiting while the
\* ticket is on screen); an invalid one shows the alert and changes nothing.
handleClaim(claimType) ==
  /\ Rendered
  /\ IF handleClaimIsValid(ticketData, claimState, claimType)
     THEN /\ Cardinality(PendingClaims(timers)) < MaxPending
          /\ timers' = Append(timers, claimType)
     ELSE UNCHANGED timers
  /\ UNCHANGED <<ticketData, claimState, isLoading, loadCount>>
  /\ UNCHANGED <<genVars, claimVars, calledNumbers>>
  /\ UNCHANGED appVars

\* handleClaim after its await:
\* setClaimState(prev => ({ ...prev, [claimType]: true })).
handleClaimResume ==
  /\ timers # <<>>
  /\ Head(timers) # "load"
  /\ claimState' = [claimState EXCEPT ![Head(timers)] = TRUE]
  /\ timers' = Tail(timers)
  /\ UNCHANGED <<ticketData, isLoading, loadCount>>
  /\ UNCHANGED <<genVars, claimVars, calledNumbers>>
  /\ UNCHANGED appVars

\* Mutant of resetTicket: the reset also deals a new grid.
resetTicketDealsAgain ==
  /\ Rendered
  /\ ticketData' = [ticketData EXCEPT !.markedNumbers = {},
                                      !.numbers = generateTicket(ticketData.id + 1)]
  /\ claimState' = NoClaims
  /\ UNCHANGED <<isLoading, timers, loadCount>>
  /\ UNCHANGED <<genVars, claimVars, calledNumbers>>
  /\ UNCHANGED appVars

\* A click on "Reset".
resetTicket ==
  /\ Rendered
  /\ ticketData' = [ticketData EXCEPT !.markedNumbers = {}]
  /\ claimState' = NoClaims
  /\ UNCHANGED <<isLoading, timers, loadCount>>
  /\ UNCHANGED <<genVars, claimVars, calledNumbers>>
  /\ UNCHANGED appVars

\* The setInterval callback of the called-numbers demo: below 20 numbers it
\* draws Math.floor(Math.random() * 90) + 1 and appends it when it is new.
\* In the model the draw is one of CallableNumbers and at most MaxCalled
\* numbers are called.
callNumber ==
  /\ Len(calledNumbers) < 20
  /\ Len(calledNumbers) < MaxCalled
  /\ \E newNumber \in CallableNumbers :
       calledNumbers' =
         IF \E k \in 1 .. Len(calledNumbers) : calledNumbers[k] = newNumber
         THEN calledNumbers
         ELSE Append(calledNumbers, newNumber)
  /\ UNCHANGED <<ticketData, claimState, isLoading, timers, loadCount>>
  /\ UNCHANGED <<genVars, claimVars>>
  /\ UNCHANGED appVars

ToggleAny ==
  /\ Rendered
  /\ \E number \in Clickable(ticketData) : toggleNumber(number)
ClaimAny == \E claimType \in ClaimKeys : handleClaim(claimType)

TicketNext ==
  \/ loadTicket
  \/ loadTicketResume
  \/ ToggleAny
  \/ ClaimAny
  \/ handleClaimResume
  \/ resetTicket

SpecTicket == TicketInit /\ [][TicketNext]_vars

\* The component with its called-numbers demo running.
CalledNext == TicketNext \/ callNumber

SpecCalled == TicketInit /\ [][CalledNext]_vars

(***************************************************************************)
(* The check of the component next to the check of the server, on one      *)
(* ticket, one set of marked numbers and one claim state.                  *)
(***************************************************************************)
\* The numbers of a marked list, as a set.
MarkedSet(markedNumbers) == {markedNumbers[k] : k \in DOMAIN markedNumbers}

\* The claim type of the server for a key of the component's ClaimState.
ServerClaimType(key) ==
  CASE key = "fastFive" -> "fast-five"
    [] key = "firstRow" -> "first-row"
    [] key = "secondRow" -> "second-row"
    [] key = "thirdRow" -> "third-row"
    [] key = "fullHouse" -> "full-house"
    [] key = "secondFullHouse" -> "second-full-house"

\* Tickets, marked numbers (all of them on the ticket: the first numbers of
\* each row), claim states and claim keys the two checks are compared on.
EligibleInputs ==
  UNION {[claimType : ClaimKeys,
          markedNumbers : {Marked(t, k0, k1, k2, <<>>) :
                             k0 \in 0 .. Len(RowNumbers(t, 0)),
                             k1 \in 0 .. Len(RowNumbers(t, 1)),
                             k2 \in 0 .. Len(RowNumbers(t, 2))},
          ticketNumbers : {t},
          claimState : [ClaimKeys -> BOOLEAN]] :
           t \in {SampleTicket, SecondTicket}}

EligibleInit ==
  /\ call \in EligibleInputs
  /\ result = NoResult
  /\ response = NoResult
  /\ accepted = <<>>
  /\ rand = <<>>
  /\ pos = 0
  /\ ticket = EmptyTicket
  /\ pc = "idle"
  /\ col = 0
  /\ row = 0
  /\ i = 0
  /\ cols = <<>>
  /\ count = 0
  /\ NotMounted
  /\ AppIdle

\* Both checks are run on the input: isValid of handleClaim, and isValid of
\* validateClaim.
CheckBoth ==
  /\ result = NoResult
  /\ result' =
       [component |->
          handleClaimIsValid([id |-> 1,
                              numbers |-> call.ticketNumbers,
                              markedNumbers |-> MarkedSet(call.markedNumbers)],
                             call.claimState, call.claimType),
        server |->
          validateClaim(ServerClaimType(call.claimType), call.markedNumbers,
                        call.ticketNumbers).isValid]
  /\ UNCHANGED <<call, response, accepted>>
  /\ UNCHANGED genVars
  /\ UNCHANGED ticketVars
  /\ UNCHANGED appVars

EligibleNext == CheckBoth

SpecEligible == EligibleInit /\ [][EligibleNext]_vars

(***************************************************************************)
(* The called-numbers route (api/tambola/numbers).  A JSON number x is     *)
(* the integer x * Scale in the model, so that a number with a fraction    *)
(* (1.5 is 3) can be sent; the numbers 1 and 90 of the code are Num(1) and *)
(* Num(90).  Each handler changes the maps before its first await, so a    *)
(* request is one step.                                                    *)
(***************************************************************************)
Scale == 2
Num(n) == n * Scale
IsWhole(v) == v % Scale = 0

\* Bound: entries of one tournament's list before the model stops adding.
MaxListLen == 2

\* The tournament ids of the requests; "" is a missing one.
Tournaments == {"T1", "T2"}

\* map.get(key) || []
GetOrEmpty(map, key) == IF key \in DOMAIN map THEN map[key] ELSE <<>>

\* map.set(key, value)
MapSet(map, key, value) ==
  [k \in DOMAIN map \cup {key} |-> IF k = key THEN value ELSE map[k]]

\* calledNumbers.includes(number)
NumbersInclude(calledNumbers_, number) ==
  \E k \in 1 .. Len(calledNumbers_) : calledNumbers_[k] = number

\* The bodies of POST: with every field, the number 0, 1, 1.5 or 91; and with
\* one field missing.
NumbersPostBodies ==
  [tournamentId : Tournaments,
   number : {Num(0), Num(1), 3, Num(91)},
   userToken : {"tok"}]
    \cup {[tournamentId |-> "", number |-> Num(1), userToken |-> "tok"],
          [tournamentId |-> "T1", number |-> Num(1), userToken |-> ""],
          [tournamentId |-> "T1", userToken |-> "tok"]}

\* The tournamentId parameter and the authorization header of GET, DELETE
\* and PUT: both present, or one missing.
NumbersParams ==
  {<<t, "tok">> : t \in Tournaments} \cup {<<"", "tok">>, <<"T1", "">>}

\* GET /api/tambola/numbers
NumbersGET(tournamentId, userToken) ==
  /\ IF tournamentId = "" \/ userToken = ""
     THEN /\ numbersResponse' = [status |-> 400, success |-> FALSE]
          /\ UNCHANGED <<mockCalledNumbers, mockTournamentStatus>>
     ELSE /\ IF tournamentId \notin DOMAIN mockCalledNumbers
             THEN /\ mockCalledNumbers' =
                       MapSet(mockCalledNumbers, tournamentId, <<>>)
                  /\ mockTournamentStatus' =
                       MapSet(mockTournamentStatus, tournamentId,
                              [isActive |-> TRUE])
             ELSE UNCHANGED <<mockCalledNumbers, mockTournamentStatus>>
          /\ numbersResponse' =
               [status |-> 200, success |-> TRUE,
                calledNumbers |-> GetOrEmpty(mockCalledNumbers, tournamentId)]
  /\ UNCHANGED outsideNumbers

\* Mutant of NumbersPOST: the number is added before it is looked up.
NumbersPOSTAddsFirst(body) ==
  /\ "number" \in DOMAIN body
  /\ body.tournamentId # "" /\ body.userToken # ""
  /\ Len(GetOrEmpty(mockCalledNumbers, body.tournamentId)) < MaxListLen
  /\ mockCalledNumbers' =
       MapSet(mockCalledNumbers, body.tournamentId,
              Append(GetOrEmpty(mockCalledNumbers, body.tournamentId),
                     body.number))
  /\ numbersResponse' = [status |-> 200, success |-> TRUE]
  /\ UNCHANGED mockTournamentStatus
  /\ UNCHANGED outsideNumbers

\* POST /api/tambola/numbers
NumbersPOST(body) ==
  /\ IF body.tournamentId = "" \/ "number" \notin DOMAIN body
          \/ body.userToken = ""
     THEN /\ numbersResponse' =
               [status |-> 400, success |-> FALSE,
                message |-> <<"Missing required fields">>]
          /\ UNCHANGED mockCalledNumbers
     ELSE IF body.number < Num(1) \/ body.number > Num(90)
     THEN /\ numbersResponse' =
               [status |-> 400, success |-> FALSE,
                message |-> <<"Number must be between 1 and 90">>]
          /\ UNCHANGED mockCalledNumbers
     ELSE LET calledNumbers_ ==
                GetOrEmpty(mockCalledNumbers, body.tournamentId)
          IN  IF NumbersInclude(calledNumbers_, body.number)
              THEN /\ numbersResponse' =
                        [status |-> 400, success |-> FALSE,
                         message |-> <<"Number ", body.number,
                                       " has already been called">>]
                   /\ UNCHANGED mockCalledNumbers
              ELSE /\ Len(calledNumbers_) < MaxListLen
                   /\ mockCalledNumbers' =
                        MapSet(mockCalledNumbers, body.tournamentId,
                               Append(calledNumbers_, body.number))
                   /\ numbersResponse' =
                        [status |-> 200, success |-> TRUE,
                         message |-> <<"Number ", body.number,
                                       " called successfully">>]
  /\ UNCHANGED mockTournamentStatus
  /\ UNCHANGED outsideNumbers

\* DELETE /api/tambola/numbers
NumbersDELETE(tournamentId, userToken) ==
  /\ IF tournamentId = "" \/ userToken = ""
     THEN /\ numbersResponse' = [status |-> 400, success |-> FALSE]
          /\ UNCHANGED mockCalledNumbers
     ELSE /\ mockCalledNumbers' = MapSet(mockCalledNumbers, tournamentId, <<>>)
          /\ numbersResponse' =
               [status |-> 200, success |-> TRUE, calledNumbers |-> <<>>]
  /\ UNCHANGED mockTournamentStatus
  /\ UNCHANGED outsideNumbers

\* Array.from({ length: 90 }, (_, i) => i + 1)
OneToNinety == ArrayFrom(1, 90)

\* The loop of PUT: numbersToAdd times, a random element of availableNumbers
\* is spliced out and pushed.  The random index is the first or the last.
RECURSIVE AutoGenerate(_, _, _)
AutoGenerate(calledNumbers_, availableNumbers, numbersToAdd) ==
  IF numbersToAdd = 0 THEN {calledNumbers_}
  ELSE UNION {AutoGenerate(Append(calledNumbers_, Num(availableNumbers[randomIndex + 1])),
                           Splice(availableNumbers, randomIndex),
                           numbersToAdd - 1) :
                randomIndex \in {0, Len(availableNumbers) - 1}}

\* PUT /api/tambola/numbers?count=...
NumbersPUT(tournamentId, count_, userToken) ==
  /\ IF tournamentId = "" \/ userToken = ""
     THEN /\ numbersResponse' = [status |-> 400, success |-> FALSE]
          /\ UNCHANGED mockCalledNumbers
     ELSE IF count_ < 1 \/ count_ > 10
     THEN /\ numbersResponse' =
               [status |-> 400, success |-> FALSE,
                message |-> <<"Count must be between 1 and 10">>]
          /\ UNCHANGED mockCalledNumbers
     ELSE LET calledNumbers_ == GetOrEmpty(mockCalledNumbers, tournamentId)
              availableNumbers ==
                SelectSeq(OneToNinety,
                          LAMBDA num : ~NumbersInclude(calledNumbers_, Num(num)))
              numbersToAdd ==
                IF count_ < Len(availableNumbers)
                THEN count_ ELSE Len(availableNumbers)
          IN  IF Len(availableNumbers) = 0
              THEN /\ numbersResponse' =
                        [status |-> 400, success |-> FALSE,
                         message |-> <<"All numbers have been called">>]
                   /\ UNCHANGED mockCalledNumbers
              ELSE /\ Len(calledNumbers_) + numbersToAdd <= MaxListLen
                   /\ \E generated \in
                          AutoGenerate(calledNumbers_, availableNumbers,
                                       numbersToAdd) :
                        /\ mockCalledNumbers' =
                             MapSet(mockCalledNumbers, tournamentId, generated)
                        /\ numbersResponse' =
                             [status |-> 200, success |-> TRUE,
                              calledNumbers |-> generated]
  /\ UNCHANGED mockTournamentStatus
  /\ UNCHANGED outsideNumbers

NumbersInit ==
  /\ AppIdle
  /\ CoreIdle

GetAny == \E q \in NumbersParams : NumbersGET(q[1], q[2])
PostAny == \E body \in NumbersPostBodies : NumbersPOST(body)
DeleteAny == \E q \in NumbersParams : NumbersDELETE(q[1], q[2])
PutAny ==
  \/ \E q \in NumbersParams, c \in {1, 2} : NumbersPUT(q[1], c, q[2])
  \/ \E c \in {0, 11} : NumbersPUT("T1", c, "tok")

NumbersNext == GetAny \/ PostAny \/ DeleteAny \/ PutAny

SpecNumbers == NumbersInit /\ [][NumbersNext]_vars

(***************************************************************************)
(* The ticket route (GET, PUT and POST on the stored tickets).  An id is a *)
(* string, here the sequence of its pieces; "-" is a piece.                *)
(***************************************************************************)
\* The tournament ids and the user ids of the requests; <<>> is a missing one.
StoreTournaments == {<<"a">>, <<"a", "-", "b">>}
StoreUsers == {<<"c">>, <<"b", "-", "c">>}

\* `${tournamentId}-${userId}`
TicketKey(tournamentId, userId) == tournamentId \o <<"-">> \o userId

\* The response of GET to these parameters, with the tickets stored now.
TicketGetResponse(tournamentId, userId, userToken) ==
  IF tournamentId = <<>> \/ userId = <<>> \/ userToken = ""
  THEN [status |-> 400, success |-> FALSE]
  ELSE LET ticketKey == TicketKey(tournamentId, userId)
       IN  IF ticketKey \notin DOMAIN mockTickets
           THEN [status |-> 404, success |-> FALSE]
           ELSE [status |-> 200, success |-> TRUE,
                 ticket |-> mockTickets[ticketKey],
                 calledNumbers |->
                   GetOrEmpty(storeCalledNumbers, tournamentId)]

\* GET /api/tambola/ticket
TicketGET(tournamentId, userId, userToken) ==
  /\ ticketResponse' = TicketGetResponse(tournamentId, userId, userToken)
  /\ UNCHANGED <<mockTickets, storeCalledNumbers>>
  /\ UNCHANGED outsideStore

\* PUT /api/tambola/ticket: the update is acknowledged, nothing is stored.
TicketPUT(ticketId, markedNumbers, userToken) ==
  /\ ticketResponse' =
       IF ticketId = <<>> \/ userToken = ""
       THEN [status |-> 400, success |-> FALSE]
       ELSE [status |-> 200, success |-> TRUE,
             markedNumbers |-> markedNumbers]
  /\ UNCHANGED <<mockTickets, storeCalledNumbers>>
  /\ UNCHANGED outsideStore

\* POST /api/tambola/ticket.  generateTambolaTicket() returns one of the two
\* tickets of the model; the time stamps of the ticket are left out.
TicketPOST(tournamentId, userId, userToken) ==
  /\ IF tournamentId = <<>> \/ userId = <<>> \/ userToken = ""
     THEN /\ ticketResponse' = [status |-> 400, success |-> FALSE]
          /\ UNCHANGED <<mockTickets, storeCalledNumbers>>
     ELSE \E numbers \in {SampleTicket, SecondTicket} :
            LET ticket_ ==
                  [id |-> <<"ticket-">> \o tournamentId \o <<"-">> \o userId,
                   numbers |-> numbers,
                   tournamentId |-> tournamentId,
                   userId |-> userId,
                   isActive |-> TRUE]
            IN  /\ mockTickets' =
                     MapSet(mockTickets, TicketKey(tournamentId, userId),
                            ticket_)
                /\ storeCalledNumbers' =
                     IF tournamentId \in DOMAIN storeCalledNumbers
                     THEN storeCalledNumbers
                     ELSE MapSet(storeCalledNumbers, tournamentId, <<>>)
                /\ ticketResponse' =
                     [status |-> 200, success |-> TRUE, ticket |-> ticket_,
                      calledNumbers |->
                        GetOrEmpty(storeCalledNumbers', tournamentId)]
  /\ UNCHANGED outsideStore

StoreInit ==
  /\ AppIdle
  /\ CoreIdle

\* The parameters of the requests: all present, or one missing.
StoreParams ==
  {<<t, u, "tok">> : t \in StoreTournaments, u \in StoreUsers}
    \cup {<<<<>>, <<"c">>, "tok">>, <<<<"a">>, <<>>, "tok">>,
          <<<<"a">>, <<"c">>, "">>}

TicketGetAny == \E q \in StoreParams : TicketGET(q[1], q[2], q[3])
TicketPutAny ==
  \E q \in {<<<<"ticket-1">>, "tok">>, <<<<>>, "tok">>, <<<<"ticket-1">>, "">>} :
    TicketPUT(q[1], <<4>>, q[2])
TicketPostAny == \E q \in StoreParams : TicketPOST(q[1], q[2], q[3])

StoreNext == TicketGetAny \/ TicketPutAny \/ TicketPostAny

SpecStore == StoreInit /\ [][StoreNext]_vars

(***************************************************************************)
(* AuthStorage: the signed-in users kept in localStorage.  Times are in    *)
(* minutes.                                                                *)
(***************************************************************************)
\* TOKEN_EXPIRY_BUFFER = 5 * 60 * 1000 ms
TOKEN_EXPIRY_BUFFER == 5

\* 60 * 60 * 1000 ms, the life of a token
TOKEN_LIFE == 60

\* How far the clock runs.
MaxNow == 2

AuthUserIds == {"player1", "player2"}

\* localStorage.setItem(STORAGE_KEY, JSON.stringify(users))
Stored(users) == [stored |-> TRUE, users |-> users]

\* The place of the first user with this id in users, 0 if there is none
\* (findIndex, which returns -1 then).
FindIndex(users, userId) ==
  IF \E k \in 1 .. Len(users) : users[k].id = userId
  THEN CHOOSE k \in 1 .. Len(users) :
         /\ users[k].id = userId
         /\ \A j \in 1 .. (k - 1) : users[j].id # userId
  ELSE 0

\* users.filter(user => user.tokenExpiry > Date.now() + TOKEN_EXPIRY_BUFFER)
ValidUsers(users, t) ==
  LET Valid(user) == user.tokenExpiry > t + TOKEN_EXPIRY_BUFFER
  IN  SelectSeq(users, Valid)

\* loadUsers at time t with item ls stored: what it returns and what is
\* stored after it.
LoadUsers(ls, t) ==
  IF ~ls.stored
  THEN [users |-> <<>>, storage |-> ls]
  ELSE LET validUsers == ValidUsers(ls.users, t)
       IN  [users |-> validUsers,
            storage |-> IF Len(validUsers) # Len(ls.users)
                        THEN Stored(validUsers)
                        ELSE ls]

\* What is stored after updateUserToken(userId, accessToken) at time t.
UpdateUserToken(ls, t, userId, accessToken) ==
  LET l == LoadUsers(ls, t)
      userIndex == FindIndex(l.users, userId)
  IN  IF userIndex # 0
      THEN Stored([l.users EXCEPT
                     ![userIndex] = [@ EXCEPT !.accessToken = accessToken,
                                              !.tokenExpiry = t + TOKEN_LIFE]])
      ELSE l.storage

\* What is stored after removeUser(userId) at time t.
RemoveUser(ls, t, userId) ==
  LET NotThisUser(u) == u.id # userId
  IN  Stored(SelectSeq(LoadUsers(ls, t).users, NotThisUser))

\* saveUsers(users): a user without tokenExpiry gets signInTime + 1 hour.
SaveUsers(users) ==
  Stored([k \in 1 .. Len(users) |->
            [id |-> users[k].id,
             accessToken |-> users[k].accessToken,
             tokenExpiry |-> IF users[k].tokenExpiry # 0
                             THEN users[k].tokenExpiry
                             ELSE users[k].signInTime + TOKEN_LIFE]])

loadUsers ==
  /\ loaded' = LoadUsers(localStorage, now).users
  /\ localStorage' = LoadUsers(localStorage, now).storage
  /\ UNCHANGED now
  /\ UNCHANGED outsideAuth

updateUserToken(userId, accessToken) ==
  /\ localStorage' = UpdateUserToken(localStorage, now, userId, accessToken)
  /\ UNCHANGED <<now, loaded>>
  /\ UNCHANGED outsideAuth

removeUser(userId) ==
  /\ localStorage' = RemoveUser(localStorage, now, userId)
  /\ UNCHANGED <<now, loaded>>
  /\ UNCHANGED outsideAuth

clearAll ==
  /\ localStorage' = NotStored
  /\ UNCHANGED <<now, loaded>>
  /\ UNCHANGED outsideAuth

saveUsers(users) ==
  /\ localStorage' = SaveUsers(users)
  /\ UNCHANGED <<now, loaded>>
  /\ UNCHANGED outsideAuth

\* A minute passes.
Tick ==
  /\ now < MaxNow
  /\ now' = now + 1
  /\ UNCHANGED <<localStorage, loaded>>
  /\ UNCHANGED outsideAuth

\* The expiry times of the users an earlier session left in localStorage, as
\* seen at time 0: expired, expiring now, within the buffer, at its end, past
\* it, and fresh.
StoredExpiries ==
  {0 - 1, 0, 1, TOKEN_EXPIRY_BUFFER, TOKEN_EXPIRY_BUFFER + 1, TOKEN_LIFE}

\* The lists of stored users: no id twice.
StoredLists ==
  {<<>>}
    \cup {<<[id |-> a, accessToken |-> "old", tokenExpiry |-> e]>> :
            a \in AuthUserIds, e \in StoredExpiries}
    \cup {<<[id |-> "player1", accessToken |-> "old", tokenExpiry |-> e1],
            [id |-> "player2", accessToken |-> "old", tokenExpiry |-> e2]>> :
            e1 \in StoredExpiries, e2 \in StoredExpiries}

\* The users saveUsers is called with: signed in just now, with or without
\* a tokenExpiry of their own (0 when absent).
SavedLists ==
  {<<>>}
    \cup {<<[id |-> a, accessToken |-> "old", signInTime |-> now,
             tokenExpiry |-> e]>> :
            a \in AuthUserIds, e \in {0, now + TOKEN_LIFE}}

AuthInit ==
  /\ localStorage \in {NotStored} \cup {Stored(l) : l \in StoredLists}
  /\ now = 0
  /\ loaded = <<>>
  /\ NumbersIdle
  /\ StoreIdle
  /\ SlotsIdle
  /\ ApiIdle
  /\ CoreIdle

AuthNext ==
  \/ loadUsers
  \/ \E userId \in AuthUserIds : updateUserToken(userId, "new")
  \/ \E userId \in AuthUserIds : removeUser(userId)
  \/ clearAll
  \/ \E users \in SavedLists : saveUsers(users)
  \/ Tick

SpecAuth == AuthInit /\ [][AuthNext]_vars

(***************************************************************************)
(* MultiPlayerAuth: the player slots, signInPlayer, signOutPlayer and      *)
(* signOutAllPlayers.  A handler runs to its first await in one step and   *)
(* from there to its end in another; it keeps the playerSlots of the       *)
(* render it was called from.  There is one environment, and the tokens    *)
(* of the slots are not refreshed.                                         *)
(***************************************************************************)
\* maxPlayers
MaxPlayers == 2

\* How many handlers wait at an await at a time.
MaxHandlers == 2

\* user: null
NoUser == [none |-> TRUE]

\* The slot initializeSlots creates; auth is TRUE for an Auth, FALSE for null.
EmptySlot == [user |-> NoUser, auth |-> FALSE, isSigningIn |-> FALSE]

\* { ...slot, ...updates }
Merge(slot, updates) ==
  [f \in DOMAIN slot |-> IF f \in DOMAIN updates THEN updates[f] ELSE slot[f]]

\* prev.map(slot => slot.id === slotId ? { ...slot, ...updates } : slot)
updateSlotState(prev, slotId, updates) ==
  [k \in DOMAIN prev |->
     IF k = slotId THEN Merge(prev[k], updates) ELSE prev[k]]

\* The sequence without its element at place k.
DropAt(seq, k) == SubSeq(seq, 1, k - 1) \o SubSeq(seq, k + 1, Len(seq))

\* The slots that hold a user.
SlotsWithUser(slots) == {k \in DOMAIN slots : slots[k].user # NoUser}

\* The effect on mount: the stored users are loaded and restored to the
\* first slots; a user whose Firebase instance cannot be created is not.
initializeSlots ==
  /\ isInitializing
  /\ LET l == LoadUsers(localStorage, now)
         n == IF Len(l.users) < MaxPlayers THEN Len(l.users) ELSE MaxPlayers
     IN  /\ localStorage' = l.storage
         /\ \E created \in [1 .. n -> BOOLEAN] :
              playerSlots' =
                [k \in 1 .. MaxPlayers |->
                   IF k <= n /\ created[k]
                   THEN [user |-> l.users[k], auth |-> TRUE,
                         isSigningIn |-> FALSE]
                   ELSE EmptySlot]
  /\ isInitializing' = FALSE
  /\ UNCHANGED <<now, loaded, handlers>>
  /\ UNCHANGED outsideSlots

\* signInPlayer(slotId) up to `await signInWithPopup`; the button is there
\* when the slot has no user and is not signing in.
signInPlayer(slotId) ==
  /\ ~isInitializing
  /\ slotId \in DOMAIN playerSlots
  /\ playerSlots[slotId].user = NoUser
  /\ ~playerSlots[slotId].isSigningIn
  /\ Len(handlers) < MaxHandlers
  /\ playerSlots' =
       updateSlotState(playerSlots, slotId, [isSigningIn |-> TRUE])
  /\ handlers' =
       Append(handlers,
              [kind |-> "signIn", slotId |-> slotId, closure |-> playerSlots])
  /\ UNCHANGED <<isInitializing, authVars>>
  /\ UNCHANGED outsideSlots

\* playerSlots.find(s => s.user && s.user.user.uid === user.uid &&
\* s.id !== slotId), where playerSlots is the handler's own.
ExistingSlot(closure, slotId, uid) ==
  \E k \in DOMAIN closure :
    /\ closure[k].user # NoUser
    /\ closure[k].user.id = uid
    /\ k # slotId

\* The rest of signInPlayer: the popup gave the account uid, or it (or
\* getIdToken) threw.
signInPlayerResume(h, uid) ==
  /\ h \in DOMAIN handlers
  /\ handlers[h].kind = "signIn"
  /\ LET slotId == handlers[h].slotId
     IN  IF uid = "throw" \/ ExistingSlot(handlers[h].closure, slotId, uid)
         THEN playerSlots' =
                updateSlotState(playerSlots, slotId,
                                [isSigningIn |-> FALSE, auth |-> FALSE])
         ELSE playerSlots' =
                updateSlotState(playerSlots, slotId,
                                [user |-> [id |-> uid, accessToken |-> "old",
                                           tokenExpiry |-> now + TOKEN_LIFE],
                                 auth |-> TRUE,
                                 isSigningIn |-> FALSE])
  /\ handlers' = DropAt(handlers, h)
  /\ UNCHANGED <<isInitializing, authVars>>
  /\ UNCHANGED outsideSlots

\* signOutPlayer(slotId) up to `await firebaseSignOut`: the user is removed
\* from localStorage first.
signOutPlayer(slotId) ==
  /\ ~isInitializing
  /\ slotId \in SlotsWithUser(playerSlots)
  /\ Len(handlers) < MaxHandlers
  /\ IF ~playerSlots[slotId].auth
     THEN UNCHANGED <<localStorage, handlers>>
     ELSE /\ localStorage' =
               RemoveUser(localStorage, now, playerSlots[slotId].user.id)
          /\ handlers' =
               Append(handlers,
                      [kind |-> "signOut", slotId |-> slotId,
                       closure |-> playerSlots])
  /\ UNCHANGED <<playerSlots, isInitializing, now, loaded>>
  /\ UNCHANGED outsideSlots

\* The rest of signOutPlayer: firebaseSignOut and removeFirebaseInstance
\* returned, or one of them threw.
signOutPlayerResume(h, threw) ==
  /\ h \in DOMAIN handlers
  /\ handlers[h].kind = "signOut"
  /\ playerSlots' =
       IF threw
       THEN playerSlots
       ELSE updateSlotState(playerSlots, handlers[h].slotId,
                            [user |-> NoUser, auth |-> FALSE])
  /\ handlers' = DropAt(handlers, h)
  /\ UNCHANGED <<isInitializing, authVars>>
  /\ UNCHANGED outsideSlots

\* The handlers signOutAllPlayers starts, one for each of these slots, in
\* the order of the slots.
RECURSIVE SignOutsOf(_, _)
SignOutsOf(slots, k) ==
  IF k > Len(slots)
  THEN <<>>
  ELSE (IF slots[k].user # NoUser /\ slots[k].auth
        THEN <<[kind |-> "signOut", slotId |-> k, closure |-> slots]>>
        ELSE <<>>) \o SignOutsOf(slots, k + 1)

\* signOutAllPlayers up to its await: clearAll, then signOutPlayer for every
\* slot with a user, each of which stores the list without its user.
signOutAllPlayers ==
  /\ ~isInitializing
  /\ SlotsWithUser(playerSlots) # {}
  /\ LET started == SignOutsOf(playerSlots, 1)
     IN  /\ Len(handlers) + Len(started) <= MaxHandlers
         /\ handlers' = handlers \o started
         /\ localStorage' = IF started = <<>> THEN NotStored ELSE Stored(<<>>)
  /\ UNCHANGED <<playerSlots, isInitializing, now, loaded>>
  /\ UNCHANGED outsideSlots

\* The users an earlier session left in localStorage for this component.
SlotStoredLists ==
  {l \in StoredLists :
     \A k \in 1 .. Len(l) :
       l[k].tokenExpiry \in {1, TOKEN_EXPIRY_BUFFER + 1, TOKEN_LIFE}}

SlotsInit ==
  /\ localStorage \in {NotStored} \cup {Stored(l) : l \in SlotStoredLists}
  /\ now = 0
  /\ loaded = <<>>
  /\ SlotsIdle
  /\ NumbersIdle
  /\ StoreIdle
  /\ ApiIdle
  /\ CoreIdle

SignInAny == \E slotId \in 1 .. MaxPlayers : signInPlayer(slotId)
SignInResumeAny ==
  \E h \in 1 .. MaxHandlers, uid \in AuthUserIds \cup {"throw"} :
    signInPlayerResume(h, uid)
SignOutAny == \E slotId \in 1 .. MaxPlayers : signOutPlayer(slotId)
SignOutResumeAny ==
  \E h \in 1 .. MaxHandlers, threw \in BOOLEAN : signOutPlayerResume(h, threw)

SlotsNext ==
  \/ initializeSlots
  \/ SignInAny
  \/ SignInResumeAny
  \/ SignOutAny
  \/ SignOutResumeAny
  \/ signOutAllPlayers
  \/ Tick

SpecSlots == SlotsInit /\ [][SlotsNext]_vars

(***************************************************************************)
(* useApiService: executeWithAuth and refreshTokenForUser.  A message is   *)
(* the sequence of its pieces, <<>> the missing or empty one; error is     *)
(* <<>> for null, since no empty message is ever stored.                   *)
(***************************************************************************)
\* How many calls of executeWithAuth are in flight at a time.
MaxCalls == 2

\* The messages the operation fails with.
OperationErrors ==
  {<<"API request failed: ", "401", " Unauthorized">>,
   <<"unauthorized">>,
   <<"Unauthorized">>,
   <<"API request failed: ", "500">>,
   <<>>}

NoUsersMessage == <<"No authenticated users available">>
NoTokenMessage == <<"No authentication token available for user">>
RefreshFailedMessage == <<"Failed to refresh authentication token">>

\* Mutant of IsTokenExpired: every error is taken for an expired token.
IsTokenExpiredAlways(message) == TRUE

\* err.message?.includes('401') || err.message?.includes('unauthorized')
IsTokenExpired(message) ==
  Includes(message, "401") \/ Includes(message, "unauthorized")

\* err.message || 'API operation failed'
ErrorMessage(message) ==
  IF message = <<>> THEN <<"API operation failed">> ELSE message

\* userId || authenticatedUsers[0]?.id, "" when there is none
TargetUserId(users, userId) ==
  IF userId # "" THEN userId
  ELSE IF users # <<>> THEN users[1].id
  ELSE ""

\* getAuthTokenForUser: user?.accessToken || null, "" for null
getAuthTokenForUser(users, userId) ==
  IF \E k \in 1 .. Len(users) : users[k].id = userId
  THEN users[CHOOSE k \in 1 .. Len(users) :
               /\ users[k].id = userId
               /\ \A j \in 1 .. (k - 1) : users[j].id # userId].accessToken
  ELSE ""

\* The outer catch and the finally of a call that failed with this message.
FailWith(kind_, attempts_, firstError_, refreshed_, message_) ==
  /\ apiError' = ErrorMessage(message_)
  /\ apiIsLoading' = FALSE
  /\ lastFinished' =
       [kind |-> kind_, attempts |-> attempts_, firstError |-> firstError_,
        refreshed |-> refreshed_, failed |-> TRUE,
        message |-> ErrorMessage(message_)]

\* executeWithAuth(operation, userId) up to the first `await operation`.
executeWithAuth(userId) ==
  /\ Len(apiCalls) < MaxCalls
  /\ LET targetUserId == TargetUserId(authenticatedUsers, userId)
         authToken == getAuthTokenForUser(authenticatedUsers, targetUserId)
     IN  IF targetUserId = ""
         THEN /\ FailWith("noUser", 0, <<>>, FALSE, NoUsersMessage)
              /\ UNCHANGED apiCalls
         ELSE IF authToken = ""
         THEN /\ FailWith("noToken", 0, <<>>, FALSE, NoTokenMessage)
              /\ UNCHANGED apiCalls
         ELSE /\ apiError' = <<>>
              /\ apiIsLoading' = TRUE
              /\ apiCalls' =
                   Append(apiCalls,
                          [stage |-> "first", attempts |-> 1,
                           targetUserId |-> targetUserId,
                           firstError |-> <<>>, refreshed |-> FALSE,
                           users |-> authenticatedUsers])
              /\ UNCHANGED lastFinished
  /\ UNCHANGED authenticatedUsers
  /\ UNCHANGED outsideApi

\* The call at place c finishes, having returned the operation's value.
ReturnValue(c) ==
  /\ apiIsLoading' = FALSE
  /\ lastFinished' =
       [kind |-> "operation", attempts |-> apiCalls[c].attempts,
        firstError |-> apiCalls[c].firstError,
        refreshed |-> apiCalls[c].refreshed, failed |-> FALSE,
        message |-> <<>>]
  /\ apiCalls' = DropAt(apiCalls, c)
  /\ UNCHANGED apiError

\* The operation of the call at place c returns ("ok") or throws an error
\* with the message outcome.
operationDone(c, ok, outcome) ==
  /\ c \in DOMAIN apiCalls
  /\ apiCalls[c].stage \in {"first", "second"}
  /\ IF ok
     THEN ReturnValue(c)
     ELSE IF apiCalls[c].stage = "first" /\ IsTokenExpired(outcome)
     THEN IF getAuthTokenForUser(apiCalls[c].users,
                                 apiCalls[c].targetUserId) = ""
             /\ \A k \in 1 .. Len(apiCalls[c].users) :
                  apiCalls[c].users[k].id # apiCalls[c].targetUserId
          THEN \* refreshTokenForUser: 'User not found'
               /\ FailWith("operation", 1, outcome, FALSE,
                           <<"User not found">>)
               /\ apiCalls' = DropAt(apiCalls, c)
          ELSE /\ apiCalls' =
                    [apiCalls EXCEPT ![c] = [@ EXCEPT !.stage = "refresh",
                                                      !.firstError = outcome]]
               /\ UNCHANGED <<apiError, apiIsLoading, lastFinished>>
     ELSE /\ FailWith("operation", apiCalls[c].attempts,
                      IF apiCalls[c].stage = "first"
                      THEN outcome ELSE apiCalls[c].firstError,
                      apiCalls[c].refreshed, outcome)
          /\ apiCalls' = DropAt(apiCalls, c)
  /\ UNCHANGED authenticatedUsers
  /\ UNCHANGED outsideApi

\* getIdToken(true) of refreshTokenForUser returns, and the operation is
\* invoked again, or it (or updateUser) throws.
refreshDone(c, ok) ==
  /\ c \in DOMAIN apiCalls
  /\ apiCalls[c].stage = "refresh"
  /\ IF ok
     THEN /\ apiCalls' =
               [apiCalls EXCEPT ![c] = [@ EXCEPT !.stage = "second",
                                                 !.attempts = 2,
                                                 !.refreshed = TRUE]]
          /\ UNCHANGED <<apiError, apiIsLoading, lastFinished>>
     ELSE /\ FailWith("operation", 1, apiCalls[c].firstError, FALSE,
                      RefreshFailedMessage)
          /\ apiCalls' = DropAt(apiCalls, c)
  /\ UNCHANGED authenticatedUsers
  /\ UNCHANGED outsideApi

\* The lists of users the auth context holds; "" is a missing accessToken.
ApiUserLists ==
  {<<>>,
   <<[id |-> "player1", accessToken |-> ""]>>,
   <<[id |-> "player2", accessToken |-> "old"],
     [id |-> "player1", accessToken |-> "new"]>>}

\* The auth context changes its users (a sign-in, a sign-out, updateUser).
UsersChange ==
  /\ \E users \in ApiUserLists \ {authenticatedUsers} :
       authenticatedUsers' = users
  /\ UNCHANGED <<apiCalls, apiError, apiIsLoading, lastFinished>>
  /\ UNCHANGED outsideApi

ApiInit ==
  /\ authenticatedUsers \in ApiUserLists
  /\ apiCalls = <<>>
  /\ apiError = <<>>
  /\ apiIsLoading = FALSE
  /\ lastFinished = NoCall
  /\ NumbersIdle
  /\ StoreIdle
  /\ AuthIdle
  /\ SlotsIdle
  /\ CoreIdle

\* The userId of a call: none (""), a user's, or nobody's.
ExecuteAny == \E userId \in {"", "player1", "player3"} : executeWithAuth(userId)
OperationDoneAny ==
  \E c \in 1 .. MaxCalls :
    \/ operationDone(c, TRUE, <<>>)
    \/ \E outcome \in OperationErrors : operationDone(c, FALSE, outcome)
RefreshDoneAny == \E c \in 1 .. MaxCalls, ok \in BOOLEAN : refreshDone(c, ok)

ApiNext ==
  \/ ExecuteAny
  \/ OperationDoneAny
  \/ RefreshDoneAny
  \/ UsersChange

SpecApi == ApiInit /\ [][ApiNext]_vars

(***************************************************************************)
(* Properties of the generator.                                            *)
(***************************************************************************)
FilledInRow(t, r) == {c \in Cols : t[r][c] # NULL}
FilledInCol(t, c) == {r \in Rows : t[r][c] # NULL}
Cells == Rows \X Cols

\* C1: the returned ticket has exactly 5 filled and 4 empty cells in each of
\* its 3 rows, whatever the random source returned.
C1_RowsHaveFive ==
  pc = "done" =>
    \A r \in Rows :
      /\ Cardinality(FilledInRow(ticket, r)) = 5
      /\ Cardinality(Cols \ FilledInRow(ticket, r)) = 4

\* A ticket was returned whose last balanced row had numbers removed or added.
W_C1 ==
  /\ pc = "done"
  /\ count > 0
  /\ \A r \in Rows : Cardinality(FilledInRow(ticket, r)) = 5

\* C2: in the returned ticket every column holds at least 1 and at most 3
\* numbers (as claimed; the remove branch can empty a column).
C2_ColumnsNonEmpty ==
  pc = "done" =>
    \A c \in Cols : Cardinality(FilledInCol(ticket, c)) \in 1 .. 3

\* C3: no number is in more than one cell, after every step of the column
\* loop and of the row-balancing loops.
C3_NumbersDistinct ==
  \A a \in Cells, b \in Cells :
    (a # b /\ ticket[a[1]][a[2]] # NULL) => ticket[a[1]][a[2]] # ticket[b[1]][b[2]]

\* A ticket was returned in which the add step filled a column to three numbers.
W_C3 ==
  /\ pc = "done"
  /\ \E c \in Cols : Cardinality(FilledInCol(ticket, c)) = 3

\* C4: every filled cell of column c holds a number of that column's range:
\* 1..9 for column 0, 10c..10c+9 for columns 1..7, 80..90 for column 8.
C4_NumbersInColumnRange ==
  \A r \in Rows, c \in Cols :
    ticket[r][c] # NULL =>
      /\ (c = 0 => ticket[r][c] \in 1 .. 9)
      /\ (c \in 1 .. 7 => ticket[r][c] \in (10 * c) .. (10 * c + 9))
      /\ (c = 8 => ticket[r][c] \in 80 .. 90)

\* The add step has just put a number into an empty cell.
W_C4 ==
  /\ pc = "add"
  /\ i > 0
  /\ ticket[row][cols[i]] # NULL

\* C5: generation terminates and returns a 3x9 grid, whatever the random
\* source returned.
C5_Terminates ==
  <>(/\ pc = "done"
     /\ DOMAIN ticket = 0 .. 2
     /\ \A r \in 0 .. 2 : DOMAIN ticket[r] = 0 .. 8)

\* A ticket was returned after the remove loop ran for its last row: the
\* columns left in filledCols are the five filled columns of that row.
W_C5 ==
  /\ pc = "done"
  /\ i > 0
  /\ Len(cols) = 5
  /\ \A k \in 1 .. 5 : ticket[2][cols[k]] # NULL

(***************************************************************************)
(* Properties of the claim endpoint and of validateClaim.                  *)
(***************************************************************************)
\* The numbers on a ticket, and those of one of its rows, as sets.
NumbersOn(t) == {t[r][c] : r \in Rows, c \in Cols} \ {NULL}
NumbersOfRow(t, r) == {t[r][c] : c \in Cols} \ {NULL}

\* C6: a second-full-house claim is accepted for a ticket only after a
\* full-house claim was accepted for it (as claimed; the endpoint keeps no
\* record of accepted claims).
C6_SecondFullHouseNeedsFullHouse ==
  \A k \in DOMAIN accepted :
    accepted[k].claimType = "second-full-house" =>
      \E j \in 1 .. (k - 1) :
        /\ accepted[j].claimType = "full-house"
        /\ accepted[j].ticketId = accepted[k].ticketId

\* C7: over any sequence of submissions for one ticket, each claim type is
\* accepted at most once (as claimed; the endpoint accepts repeats).
C7_AcceptedAtMostOnce ==
  \A j \in DOMAIN accepted, k \in DOMAIN accepted :
    (j # k /\ accepted[j].ticketId = accepted[k].ticketId) =>
      accepted[j].claimType # accepted[k].claimType

\* The positions of markedNumbers that hold a number not on the ticket.
OffTicketPositions(markedNumbers, t) ==
  {k \in DOMAIN markedNumbers : markedNumbers[k] \notin NumbersOn(t)}

\* The n-th smallest element of a set of positions.
NthOf(S, n) == CHOOSE k \in S : Cardinality({j \in S : j < k}) = n - 1

\* C8: for each of the six claim types, when a marked number is not on the
\* ticket the result is invalid and the message is 'Invalid numbers marked: '
\* followed by exactly the off-ticket marked numbers, in the order marked and
\* separated by ', ', whatever the claim-type-specific check would say.
C8_OffTicketNumbersReported ==
  (result # NoResult /\ call.claimType \in ClaimTypes) =>
    LET off == OffTicketPositions(call.markedNumbers, call.ticketNumbers)
        n == Cardinality(off)
    IN  off # {} =>
          /\ result.isValid = FALSE
          /\ Len(result.message) = 2 * n
          /\ result.message[1] = "Invalid numbers marked: "
          /\ \A m \in 1 .. n :
               result.message[2 * m] = call.markedNumbers[NthOf(off, m)]
          /\ \A m \in 1 .. (n - 1) : result.message[2 * m + 1] = ", "

\* A first-row claim with the whole first row marked was rejected for two
\* off-ticket numbers.
W_C8 ==
  /\ result # NoResult
  /\ call.claimType = "first-row"
  /\ NumbersOfRow(call.ticketNumbers, 0) \subseteq MarkedSet(call.markedNumbers)
  /\ Cardinality(OffTicketPositions(call.markedNumbers, call.ticketNumbers)) = 2
  /\ result.isValid = FALSE

\* C9: a fast-five claim is valid exactly when the marked numbers, taken as
\* a set, are at least 5 and all on the ticket (as claimed; the code counts
\* the entries of the list, repeats included).
C9_FastFiveIffFiveDistinct ==
  (result # NoResult /\ call.claimType = "fast-five") =>
    (result.isValid <=>
       /\ Cardinality(MarkedSet(call.markedNumbers)) >= 5
       /\ MarkedSet(call.markedNumbers) \subseteq NumbersOn(call.ticketNumbers))

\* The row a row claim is about.
RowOfClaim(claimType) ==
  CASE claimType = "first-row" -> 0
    [] claimType = "second-row" -> 1
    [] claimType = "third-row" -> 2

\* C10 as claimed: a row claim is valid exactly when every non-empty cell of
\* its row is in markedNumbers.
C10_RowValidIffRowMarked ==
  (result # NoResult /\ call.claimType \in {"first-row", "second-row", "third-row"}) =>
    (result.isValid <=>
       NumbersOfRow(call.ticketNumbers, RowOfClaim(call.claimType))
         \subseteq MarkedSet(call.markedNumbers))

\* C10 as amended: a row claim is valid exactly when every marked number is
\* on the ticket and every non-empty cell of its row is in markedNumbers.
C10_RowValidIffRowMarkedOnTicket ==
  (result # NoResult /\ call.claimType \in {"first-row", "second-row", "third-row"}) =>
    (result.isValid <=>
       /\ MarkedSet(call.markedNumbers) \subseteq NumbersOn(call.ticketNumbers)
       /\ NumbersOfRow(call.ticketNumbers, RowOfClaim(call.claimType))
            \subseteq MarkedSet(call.markedNumbers))

\* A second-row claim was found valid with the first row only partly marked.
W_C10 ==
  /\ result # NoResult
  /\ call.claimType = "second-row"
  /\ result.isValid
  /\ ~(NumbersOfRow(call.ticketNumbers, 0) \subseteq MarkedSet(call.markedNumbers))
  /\ NumbersOfRow(call.ticketNumbers, 0) \cap MarkedSet(call.markedNumbers) # {}

\* C11 as claimed: a full-house claim is valid exactly when every non-empty
\* cell of the ticket is in markedNumbers.
C11_FullHouseValidIffAllMarked ==
  (result # NoResult /\ call.claimType = "full-house") =>
    (result.isValid <=>
       NumbersOn(call.ticketNumbers) \subseteq MarkedSet(call.markedNumbers))

\* C11 as amended: a full-house claim is valid exactly when every marked
\* number is on the ticket and every non-empty cell of the ticket is in
\* markedNumbers.
C11_FullHouseValidIffAllMarkedOnTicket ==
  (result # NoResult /\ call.claimType = "full-house") =>
    (result.isValid <=>
       /\ MarkedSet(call.markedNumbers) \subseteq NumbersOn(call.ticketNumbers)
       /\ NumbersOn(call.ticketNumbers) \subseteq MarkedSet(call.markedNumbers))

\* A full-house claim was found valid, with a repeated number in the list.
W_C11 ==
  /\ result # NoResult
  /\ call.claimType = "full-house"
  /\ result.isValid
  /\ Len(call.markedNumbers) > Cardinality(NumbersOn(call.ticketNumbers))

\* A request body with every required field present.
BodyOf(claimType, markedNumbers) ==
  [tournamentId |-> "T1", userId |-> "u1", ticketId |-> "ticket-1",
   claimType |-> claimType, markedNumbers |-> markedNumbers,
   userToken |-> "tok"]

C17_PrizeByClaimType ==
  response # NoResult =>
    IF response.success
    THEN LET claimType == accepted[Len(accepted)].claimType
         IN  /\ "prize" \in DOMAIN response
             /\ response.prize.currency = "INR"
             /\ (claimType = "fast-five" => response.prize.amount = 100)
             /\ (claimType \in {"first-row", "second-row", "third-row"}
                   => response.prize.amount = 200)
             /\ (claimType = "full-house" => response.prize.amount = 1000)
             /\ (claimType = "second-full-house" => response.prize.amount = 500)
    ELSE "prize" \notin DOMAIN response

\* A second-full-house claim was accepted and answered with its prize.
W_C17 ==
  /\ response # NoResult
  /\ response.success
  /\ accepted[Len(accepted)].claimType = "second-full-house"
  /\ response.prize.amount = 500

\* An iteration of the add loop is about to run on a column whose range has
\* no unused number left.
DryAddStep ==
  /\ pc = "add"
  /\ i < count /\ i < Len(cols)
  /\ Len(AddCandidates(ticket, cols[i + 1])) = 0

\* C18 as claimed: an add step finds no unused number in the range of the
\* empty column it took, and leaves the cell empty.  A formula speaks of
\* every run, so this one says that a run comes to such a step; the claim
\* asks for one run only, and C18_AddStepFindsNumber, which says that no run
\* has such a step, is what settles it.
C18_AddStepFindsNoNumber == <>DryAddStep

\* C18 as amended: every iteration of the add loop finds an unused number in
\* the range of its column, and when the loop ends the row holds exactly 5
\* numbers.
C18_AddStepFindsNumber ==
  pc = "add" =>
    IF i < count /\ i < Len(cols)
    THEN Len(AddCandidates(ticket, cols[i + 1])) > 0
    ELSE NumbersInRow(ticket, row) = RowTarget

\* The add loop has filled two or more cells of a row and ended.
W_C18 ==
  /\ pc = "add"
  /\ count >= 2
  /\ i = count
  /\ NumbersInRow(ticket, row) = RowTarget

(***************************************************************************)
(* Properties of the ticket component.                                     *)
(***************************************************************************)
\* The numbers in exactly one of the two sets.
SymDiff(a, b) == (a \ b) \cup (b \ a)

\* C13 as claimed: between resets the marked set of the ticket only grows;
\* no step but resetTicket takes a number out of it.
C13_MarkedOnlyGrows ==
  [][(ticketData # NoTicket /\ ~resetTicket) =>
       ticketData.markedNumbers \subseteq ticketData'.markedNumbers]_vars

\* C13 as amended: a step changes the marked set in one of two ways only.
\* Either it is emptied, by resetTicket (which also sets every claim to false)
\* or by a new ticket; or exactly one number of the ticket enters or leaves
\* it, in a step that is no part of a claim (toggleNumber).  handleClaim,
\* which sets a timeout when it starts and ends when the timeout runs, leaves
\* the set as it is.
C13_MarkedChangesByToggleOrReset ==
  [][ticketData # NoTicket =>
       LET before == ticketData.markedNumbers
           after == ticketData'.markedNumbers
       IN  /\ \/ after = before
              \/ /\ after = {}
                 /\ timers' = timers
                 /\ claimState' = NoClaims
              \/ /\ after = {}
                 /\ ticketData'.id # ticketData.id
              \/ /\ Cardinality(SymDiff(before, after)) = 1
                 /\ SymDiff(before, after) \subseteq NumbersOn(ticketData.numbers)
                 /\ UNCHANGED <<claimState, timers>>
           /\ (timers' # timers /\ ticketData'.id = ticketData.id) =>
                after = before]_vars

\* Three claims stand, the last made with 10 numbers marked, and 9 numbers
\* are marked now: a click has taken a marked number out of the set.
W_C13 ==
  /\ Rendered
  /\ claimState.fastFive /\ claimState.firstRow /\ claimState.secondRow
  /\ Cardinality(ticketData.markedNumbers) = 9

\* C14: when the component has made a new ticket (loadTicket, at the mount
\* or after a change of tournamentId / user.id) and when resetTicket has run,
\* all six fields of claimState are false.
C14_NewTicketHasNoClaims ==
  [][(loadTicketResume \/ resetTicket) => claimState' = NoClaims]_vars

\* C15: a handleClaim that was valid changes exactly one field of claimState
\* from false to true and leaves the other five; one that was not valid
\* changes none; and no step but resetTicket takes a field from true to
\* false.
C15_ClaimSetsExactlyOneField ==
  [][/\ handleClaimResume =>
          \E k \in ClaimKeys :
            /\ ~claimState[k] /\ claimState'[k]
            /\ \A other \in ClaimKeys \ {k} :
                 claimState'[other] = claimState[other]
     /\ ClaimAny => claimState' = claimState
     /\ ~resetTicket =>
          \A k \in ClaimKeys : claimState[k] => claimState'[k]]_vars

\* C16: toggleNumber, handleClaim (before and after its delay) and
\* resetTicket leave the grid and the id of the ticket as they are: once
\* there is a ticket, only the arrival of a new one in loadTicket changes
\* them.
C16_GridAndIdUnchanged ==
  [][(ticketData # NoTicket /\ ~loadTicketResume) =>
       /\ ticketData'.numbers = ticketData.numbers
       /\ ticketData'.id = ticketData.id]_vars

\* Clicks have marked numbers of the first ticket and a claim on it stands;
\* its grid is the one generateTicket returned.
W_C16 ==
  /\ Rendered
  /\ ticketData.id = 1
  /\ ticketData.numbers = generateTicket(1)
  /\ Cardinality(ticketData.markedNumbers) = 7
  /\ claimState.fastFive /\ claimState.firstRow
  /\ timers = <<>>

\* C20: in every state, if the second full house is claimed then the full
\* house is claimed.
C20_SecondFullHouseAfterFullHouse ==
  claimState.secondFullHouse => claimState.fullHouse

\* C19: the component's check of a claim (checkFastFive, checkRowComplete,
\* checkFullHouse with the claimState conditions of handleClaim) and
\* validateClaim's isValid give the same answer, for every ticket, every set
\* of marked numbers of the ticket, every claim state and each of the six
\* claim types.
C19_ComponentAgreesWithServer ==
  result # NoResult => result.component = result.server

\* The condition of a claim key on the marked numbers of the ticket, without
\* the claimState conditions.
ClaimCondition(td, key) ==
  CASE key = "fastFive" -> checkFastFive(td)
    [] key = "firstRow" -> checkRowComplete(td, 0)
    [] key = "secondRow" -> checkRowComplete(td, 1)
    [] key = "thirdRow" -> checkRowComplete(td, 2)
    [] key \in {"fullHouse", "secondFullHouse"} -> checkFullHouse(td)

\* C21: when handleClaim, its delay over, records a claim key as claimed, the
\* numbers marked at that moment satisfy the condition of that key, whatever
\* toggleNumber and resetTicket did during the delay.
C21_MarksStillSatisfyAtRecord ==
  [][(timers # <<>> /\ Head(timers) # "load" /\ handleClaimResume) =>
       ClaimCondition(ticketData, Head(timers))]_vars

\* C22: a claim is recorded as claimed only when every marked number has
\* been called: markedNumbers is a subset of calledNumbers whenever a field
\* of claimState becomes true.
C22_MarkedAreCalledAtRecord ==
  [][(\E k \in ClaimKeys : ~claimState[k] /\ claimState'[k]) =>
       ticketData.markedNumbers \subseteq
         {calledNumbers[k] : k \in 1 .. Len(calledNumbers)}]_vars

(***************************************************************************)
(* Properties of the called-numbers route.                                 *)
(***************************************************************************)
\* C23: after any sequence of GET, POST, PUT and DELETE requests, the list
\* of each tournament has no number twice, holds only the numbers 1, 2, ...,
\* 90, and so has at most 90 entries.
C23_CalledListsDistinctInRange ==
  \A t \in DOMAIN mockCalledNumbers :
    LET list == mockCalledNumbers[t]
    IN  /\ \A j, k \in 1 .. Len(list) : list[j] = list[k] => j = k
        /\ \A k \in 1 .. Len(list) :
             /\ IsWhole(list[k])
             /\ Num(1) <= list[k] /\ list[k] <= Num(90)
        /\ Len(list) <= 90

\* C24: a POST that is rejected (a field is missing, the number is outside
\* 1..90, or it was called already) leaves the list of every tournament as
\* it is; a POST that is accepted appends its number at the end of the list
\* of its tournament, keeps the numbers before it in their order, and leaves
\* the lists of the other tournaments as they are.
C24_PostAppendsOrLeaves ==
  [][\A body \in NumbersPostBodies :
       NumbersPOST(body) =>
         LET missing == body.tournamentId = "" \/ "number" \notin DOMAIN body
                          \/ body.userToken = ""
             before == GetOrEmpty(mockCalledNumbers, body.tournamentId)
         IN  IF missing \/ body.number < Num(1) \/ body.number > Num(90)
                  \/ NumbersInclude(before, body.number)
             THEN mockCalledNumbers' = mockCalledNumbers
             ELSE /\ DOMAIN mockCalledNumbers' =
                       DOMAIN mockCalledNumbers \cup {body.tournamentId}
                  /\ mockCalledNumbers'[body.tournamentId] =
                       before \o <<body.number>>
                  /\ \A other \in DOMAIN mockCalledNumbers \ {body.tournamentId} :
                       mockCalledNumbers'[other] = mockCalledNumbers[other]]_vars

\* A POST has put a second number at the end of T1's list while T2 has a
\* list of its own.
W_C24 ==
  /\ numbersResponse # NoResult
  /\ numbersResponse.success
  /\ "message" \in DOMAIN numbersResponse
  /\ "T1" \in DOMAIN mockCalledNumbers
  /\ "T2" \in DOMAIN mockCalledNumbers
  /\ Len(mockCalledNumbers["T1"]) = 2
  /\ Len(mockCalledNumbers["T2"]) >= 1
  /\ numbersResponse.message[2] = mockCalledNumbers["T1"][2]

(***************************************************************************)
(* Properties of the ticket route.                                         *)
(***************************************************************************)
\* C25: two different (tournamentId, userId) pairs never share a stored
\* ticket: the ticket GET returns for a pair was created for that pair.
C25_PairsDoNotShareTickets ==
  \A t \in StoreTournaments, u \in StoreUsers :
    LET got == TicketGetResponse(t, u, "tok")
    IN  got.success =>
          /\ got.ticket.tournamentId = t
          /\ got.ticket.userId = u

(***************************************************************************)
(* Properties of AuthStorage.                                              *)
(***************************************************************************)
\* The ids of the users in a list.
IdsOf(users) == {users[k].id : k \in 1 .. Len(users)}

\* The stored users whose token has not expired at time t.
Unexpired(users, t) ==
  LET Alive(user) == user.tokenExpiry > t
  IN  SelectSeq(users, Alive)

\* C26: loadUsers returns every stored user whose tokenExpiry is later than
\* the current time and no expired one, and the load removes only expired
\* users from the storage.
C26_LoadReturnsUnexpired ==
  localStorage.stored =>
    LET l == LoadUsers(localStorage, now)
    IN  /\ l.users = Unexpired(localStorage.users, now)
        /\ l.storage.users = Unexpired(localStorage.users, now)

\* C27: after updateUserToken(userId, newToken) for a stored user, the
\* storage holds that user with the new token and an expiry one hour after
\* the call, and every other stored user as before.
C27_UpdateKeepsUserAndOthers ==
  \A userId \in AuthUserIds :
    (localStorage.stored /\ userId \in IdsOf(localStorage.users)) =>
      LET after == UpdateUserToken(localStorage, now, userId, "new")
          k == FindIndex(localStorage.users, userId)
      IN  after.users =
            [localStorage.users EXCEPT
               ![k] = [@ EXCEPT !.accessToken = "new",
                                !.tokenExpiry = now + TOKEN_LIFE]]

(***************************************************************************)
(* Properties of MultiPlayerAuth.                                          *)
(***************************************************************************)
\* The user with this id is in localStorage.
InStorage(ls, userId) == ls.stored /\ userId \in IdsOf(ls.users)

\* C28: when signOutPlayer finishes, whether the Firebase sign-out returned
\* or threw, the user it was signing out is either absent from both its
\* slot and localStorage or present in both.
C28_SignOutLeavesSlotAndStorageAlike ==
  [][\A h \in DOMAIN handlers :
       (handlers[h].kind = "signOut" /\ handlers' = DropAt(handlers, h)) =>
         LET slotId == handlers[h].slotId
             userId == handlers[h].closure[slotId].user.id
         IN  (/\ playerSlots'[slotId].user # NoUser
              /\ playerSlots'[slotId].user.id = userId)
               <=> InStorage(localStorage', userId)]_vars

\* C29: no account is signed in to two player slots at a time.
C29_NoAccountInTwoSlots ==
  \A j \in DOMAIN playerSlots, k \in DOMAIN playerSlots :
    (j # k /\ playerSlots[j].user # NoUser /\ playerSlots[k].user # NoUser)
      => playerSlots[j].user.id # playerSlots[k].user.id

(***************************************************************************)
(* Properties of useApiService.                                            *)
(***************************************************************************)
\* The message mentions '401' or 'unauthorized'.
Mentions401(message) ==
  \E k \in 1 .. Len(message) : message[k] \in {"401", "unauthorized"}

\* What holds of a call, in flight or finished: at most two invocations,
\* and a second one only after the first failed with an error that
\* mentions '401' or 'unauthorized' and the token was refreshed.
AttemptsInOrder(attempts_, firstError_, refreshed_) ==
  /\ attempts_ <= 2
  /\ attempts_ = 2 => (Mentions401(firstError_) /\ refreshed_)

\* A call of executeWithAuth finishes in this step: one in flight, or one
\* that throws before it invokes the operation (the only steps that start no
\* call, leave the calls in flight alone and do not change the users).
CallFinishes ==
  \/ Len(apiCalls') < Len(apiCalls)
  \/ (apiCalls' = apiCalls /\ authenticatedUsers' = authenticatedUsers)

\* C30: executeWithAuth invokes the operation at most twice, the second
\* time only after the first attempt failed with an error mentioning '401'
\* or 'unauthorized' and the refresh succeeded; without a user or a token
\* it does not invoke it; and when a call finishes, its error, if any, is
\* the one stored in error, and isLoading is false.
C30_AtMostOneRetryAndAlwaysSettled ==
  [][/\ \A c \in DOMAIN apiCalls' :
          AttemptsInOrder(apiCalls'[c].attempts, apiCalls'[c].firstError,
                          apiCalls'[c].refreshed)
     /\ AttemptsInOrder(lastFinished'.attempts, lastFinished'.firstError,
                        lastFinished'.refreshed)
     /\ lastFinished'.kind \in {"noUser", "noToken"} =>
          lastFinished'.attempts = 0
     /\ CallFinishes =>
          /\ apiIsLoading' = FALSE
          /\ lastFinished'.failed =>
               (apiError' = lastFinished'.message /\ apiError' # <<>>)]_vars

\* A call finished after a second attempt that failed: its error is stored
\* and isLoading is false.
W_C30 ==
  /\ lastFinished.attempts = 2
  /\ lastFinished.failed
  /\ apiError = lastFinished.message
  /\ ~apiIsLoading

====
